---- MODULE Spec2Model ----
(***************************************************************************)
(* Lumina AI eye-exercise trainer: the service worker                      *)
(* (src/frontend/service-worker.js) as a state machine.                    *)
(*                                                                         *)
(* The durable state is the origin's CacheStorage (`caches`): an ordered   *)
(* list of named caches.  Every cache holds request -> response entries;   *)
(* the cache 'lumina-ai-data' is used by the worker as a key -> JSON       *)
(* document store (the `docs` of a cache).  The transient state is the     *)
(* position of every event handler whose deferred work is outstanding.     *)
(* Every await of the source is a step of its own, so handlers interleave  *)
(* exactly where the source can be suspended.                              *)
(*                                                                         *)
(* A cache name is the sequence of the pieces its template literal is      *)
(* built from, so that startsWith('lumina-') is computed, not assumed.     *)
(***************************************************************************)
EXTENDS Integers, Sequences, FiniteSets, TLC

VARIABLES
    caches,       \* CacheStorage: sequence of [name, entries, docs], creation order
    install,      \* the install event's deferred work
    activate,     \* the activate event's deferred work
    clearing,     \* the CLEAR_CACHE message's clearAllCaches() call
    skipWaiting,  \* self.skipWaiting() has been called
    clientMsgs,   \* per open client, the messages posted to it
    portReplies,  \* replies posted on a message's reply port
    stores,       \* the storeData() calls in flight
    replay,       \* the sync events' deferred work, one record per handler
    remote,       \* per mutation body, how many calls the remote API received
    fetchers,     \* the fetch events being handled
    puts,         \* the cache.put() calls the fetch handlers did not await
    shown,        \* the notifications on display, oldest first
    origin,       \* the origin the worker is served from, as the pieces of its URL
    windows,      \* the window clients of the origin: url, focus, messages received
    click,        \* the notificationclick event's deferred work
    health,       \* the periodicsync events' deferred work, one record per handler
    registered,   \* the tags given to registration.sync.register
    now,          \* Date.now(), in milliseconds
    hist          \* history the properties refer to; no handler reads it

vars == <<caches, install, activate, clearing, skipWaiting, clientMsgs, portReplies, stores, replay, remote, fetchers, puts, shown, origin, windows, click, health, registered, now, hist>>

----------------------------------------------------------------------------
(* Bounds of the model *)

MaxFetch == 2
MaxReplay == 2
MaxQueue == 3
MaxSeedFailures == 1
MaxInstalls == 1
MaxEnqueues == 2
MaxSyncs == 2
MaxClients == 2
Sequential == 1
MaxRequests == 2
MaxClears == 1
MaxDeleteFailures == 1
MaxPushes == 2
MaxClicks == 2
MaxWakeups == 2
MaxSchedules == 2
MaxTicks == 2
MaxStorageFaults == 2
MaxHealth == 2

----------------------------------------------------------------------------
(* Cache names, service-worker.js lines 6-11 *)

APP_VERSION == "2.5.0"
CACHE_NAME == <<"lumina-", "ai-trainer-v", APP_VERSION>>
STATIC_CACHE == <<"lumina-", "static-v", APP_VERSION>>
DYNAMIC_CACHE == <<"lumina-", "dynamic-v", APP_VERSION>>
RUNTIME_CACHE == <<"lumina-", "runtime-v", APP_VERSION>>
ASSETS_CACHE == <<"lumina-", "assets-v", APP_VERSION>>

\* caches.open('lumina-ai-data') in getStoredData / storeData / clearStoredData
DATA_CACHE == <<"lumina-", "ai-data">>

\* The caches the previous generation of the worker (version 2.1.0) created.
OLD_CACHE_NAME == <<"lumina-", "ai-v", "2.1.0">>
OLD_ASSETS_CACHE == <<"lumina-", "ai-assets-v", "2.1.0">>

\* Caches of other code of the same origin: outside the naming scheme.
FOREIGN_CACHE == <<"workbox-", "precache-v2">>
FOREIGN_LUMINA_INSIDE == <<"app-", "lumina-", "static-v", APP_VERSION>>

\* A URL: its protocol, host and pathname.  Host and pathname are cut into the
\* pieces the worker's string tests look at (a prefix, a directory, an
\* extension), so that startsWith / includes / endsWith are computed.
LocationHost == <<"lumina.app">>

SameOrigin(path) == [protocol |-> "https:", host |-> LocationHost, path |-> path]

CrossOrigin(host, path) == [protocol |-> "https:", host |-> host, path |-> path]

CORE_FILES == <<SameOrigin(<<"/">>),
                SameOrigin(<<"/", "index", ".html">>),
                SameOrigin(<<"/", "exercises", ".html">>),
                SameOrigin(<<"/", "dashboard", ".html">>),
                SameOrigin(<<"/", "monitor", ".html">>),
                SameOrigin(<<"/", "analytics", ".html">>),
                SameOrigin(<<"/", "profile", ".html">>),
                SameOrigin(<<"/", "settings", ".html">>),
                SameOrigin(<<"/", "manifest", ".json">>)>>

EXERCISE_ASSETS == <<SameOrigin(<<"/icons/", "icon-192", ".png">>),
                     SameOrigin(<<"/icons/", "icon-512", ".png">>),
                     SameOrigin(<<"/icons/", "maskable-icon-192", ".png">>),
                     SameOrigin(<<"/icons/", "maskable-icon-512", ".png">>),
                     SameOrigin(<<"/screenshots/", "exercises-mobile", ".png">>),
                     SameOrigin(<<"/screenshots/", "trainer-mobile", ".png">>)>>

EXTERNAL_RESOURCES == <<CrossOrigin(<<"fonts.googleapis.com">>, <<"/css2">>)>>

NETWORK_FIRST_URLS == <<"/api/", "/health-check", "/sync">>

Range(s) == {s[i] : i \in 1..Len(s)}

\* cacheName.startsWith('lumina-')
StartsWithLumina(name) == Len(name) >= 1 /\ name[1] = "lumina-"

\* validCacheNames of the activate listener
validCacheNames == <<CACHE_NAME, STATIC_CACHE, DYNAMIC_CACHE, RUNTIME_CACHE, ASSETS_CACHE>>

----------------------------------------------------------------------------
(* CacheStorage and Cache, as the platform implements them *)

NoEntries == <<>>

EmptyCache(name) == [name |-> name, entries |-> NoEntries, docs |-> NoEntries]

\* caches.keys(): the names, in creation order
CachesKeys(cs) == [i \in 1..Len(cs) |-> cs[i].name]

CachesHas(cs, name) == \E i \in 1..Len(cs) : cs[i].name = name

\* caches.open(name): creates the cache when it does not exist
CachesOpen(cs, name) == IF CachesHas(cs, name) THEN cs ELSE Append(cs, EmptyCache(name))

\* caches.delete(name)
CachesDelete(cs, name) == SelectSeq(cs, LAMBDA c : c.name # name)

\* A put that leaves an entry already under the key as it is
Put_KeepFirst(f, k, v) == [x \in (DOMAIN f) \cup {k} |-> IF x \in DOMAIN f THEN f[x] ELSE v]

Put(f, k, v) == [x \in (DOMAIN f) \cup {k} |-> IF x = k THEN v ELSE f[x]]

Remove(f, k) == [x \in (DOMAIN f) \ {k} |-> f[x]]

\* cache.put(request, response) on the cache opened as `name`.  A cache deleted
\* since it was opened is no longer reachable through CacheStorage: the write
\* is not visible to any later caches.match or caches.open.
CachePut(cs, name, url, resp) ==
    [i \in 1..Len(cs) |->
        IF cs[i].name = name
        THEN [cs[i] EXCEPT !.entries = Put(@, url, resp)]
        ELSE cs[i]]

RECURSIVE CachePutAll(_, _, _, _)
CachePutAll(cs, name, urls, resp) ==
    IF urls = <<>> THEN cs
    ELSE CachePutAll(CachePut(cs, name, Head(urls), resp), name, Tail(urls), resp)

\* caches.match(request): the first cache, in creation order, that holds it
CachesMatch(cs, url) ==
    LET hits == {i \in 1..Len(cs) : url \in DOMAIN cs[i].entries}
    IN IF hits = {} THEN [found |-> FALSE]
       ELSE LET first == CHOOSE i \in hits : \A j \in hits : i <= j
            IN [found |-> TRUE, resp |-> cs[first].entries[url], cache |-> cs[first].name]

CacheOf(cs, name) == cs[CHOOSE i \in 1..Len(cs) : cs[i].name = name]

\* the request identities that have an entry in some cache
StoredUrls(cs) == UNION {DOMAIN cs[i].entries : i \in 1..Len(cs)}

EntriesOf(cs, name) == IF CachesHas(cs, name) THEN CacheOf(cs, name).entries ELSE NoEntries

----------------------------------------------------------------------------
(* install listener, service-worker.js lines 49-85 *)

Tiers == {"static", "assets", "dynamic"}

TierCache(t) ==
    CASE t = "static" -> STATIC_CACHE
      [] t = "assets" -> ASSETS_CACHE
      [] t = "dynamic" -> DYNAMIC_CACHE

TierSeeds(t) ==
    CASE t = "static" -> CORE_FILES
      [] t = "assets" -> EXERCISE_ASSETS
      [] t = "dynamic" -> EXTERNAL_RESOURCES

\* The content a url serves: what is deployed, and a later revision of it
Deployed == "b1"

Bodies == {Deployed, "b2"}

Snapshot(b) == [status |-> 200, body |-> b]

InstallIdle ==
    [pc |-> "idle", tier |-> [t \in Tiers |-> "init"], waitUntil |-> "none",
     skipWaitingRequested |-> FALSE, caught |-> FALSE]

\* The seed fetches that fail in one population: at most MaxSeedFailures of them.
SeedFailures(t) == {bad \in SUBSET Range(TierSeeds(t)) : Cardinality(bad) <= MaxSeedFailures}

\* The platform dispatches install: a new worker instance runs the listener,
\* which starts the three populations and registers their Promise.all.
InstallEvent ==
    /\ install.pc \in {"idle", "settled"}
    /\ activate.pc # "running"
    /\ hist.installs < MaxInstalls
    /\ install' = [InstallIdle EXCEPT !.pc = "running", !.waitUntil = "pending"]
    /\ activate' = [activate EXCEPT !.pc = "idle"]
    /\ hist' = [hist EXCEPT !.installs = @ + 1]
    /\ UNCHANGED <<caches, clearing, skipWaiting, clientMsgs, portReplies, stores,
                   replay, remote, fetchers, puts, shown, origin, windows, click,
                   health, registered, now>>

\* caches.open(STATIC_CACHE | ASSETS_CACHE | DYNAMIC_CACHE) resolves
InstallOpen(t) ==
    /\ install.pc \in {"running", "settled"}
    /\ install.tier[t] = "init"
    /\ caches' = CachesOpen(caches, TierCache(t))
    /\ install' = [install EXCEPT !.tier[t] = "opened"]
    /\ UNCHANGED <<activate, clearing, skipWaiting, clientMsgs, portReplies, stores,
                   replay, remote, fetchers, puts, shown, origin, windows, click,
                   health, registered, now, hist>>

\* cache.addAll(urls): every url is fetched; the entries are written only when
\* every response is ok, otherwise the promise rejects and nothing is written.
AddAllResult(cs, name, urls, bad, b) ==
    IF bad = {} THEN CachePutAll(cs, name, urls, Snapshot(b)) ELSE cs

\* cache.add(request) for each url on its own (Promise.all over map): a url
\* whose fetch succeeds is written whatever happens to the others.
RECURSIVE AddEachResult(_, _, _, _, _)
AddEachResult(cs, name, urls, bad, b) ==
    IF urls = <<>> THEN cs
    ELSE AddEachResult(
            IF Head(urls) \in bad THEN cs ELSE CachePut(cs, name, Head(urls), Snapshot(b)),
            name, Tail(urls), bad, b)

\* hist.storedLive and hist.storedSinceEvict follow the urls of the requests
\* the pages issue in this behaviour
Tracked(urls) == urls \cap {r.url : r \in hist.scope.requests}

\* the urls a population wrote into its tier
Written(cs, t, bad) ==
    IF ~CachesHas(cs, TierCache(t)) THEN {}
    ELSE IF t = "dynamic" THEN Range(TierSeeds(t)) \ bad
    ELSE IF bad = {} THEN Range(TierSeeds(t)) ELSE {}

\* cache.addAll(CORE_FILES), cache.addAll(EXERCISE_ASSETS), and the
\* Promise.all of cache.add over EXTERNAL_RESOURCES, settle
InstallPopulate(t) ==
    /\ install.pc \in {"running", "settled"}
    /\ install.tier[t] = "opened"
    /\ \E bad \in SeedFailures(t) :
        /\ caches' = IF t = "dynamic"
                     THEN AddEachResult(caches, TierCache(t), TierSeeds(t), bad, Deployed)
                     ELSE AddAllResult(caches, TierCache(t), TierSeeds(t), bad, Deployed)
        /\ install' = [install EXCEPT !.tier[t] = IF bad = {} THEN "ok" ELSE "failed"]
        /\ hist' = [hist EXCEPT
                      !.storedLive = @ \cup Tracked(Written(caches, t, bad)),
                      !.storedSinceEvict = @ \cup Tracked(Written(caches, t, bad))]
    /\ UNCHANGED <<activate, clearing, skipWaiting, clientMsgs, portReplies, stores,
                   replay, remote, fetchers, puts, shown, origin, windows, click,
                   health, registered, now>>

\* A Promise.all that is fulfilled by the first population to finish
PromiseAllFulfilled_Any(tier) == \E t \in Tiers : tier[t] = "ok"

\* Promise.all([static, assets, dynamic]) is fulfilled: every population is
PromiseAllFulfilled(tier) == \A t \in Tiers : tier[t] = "ok"

\* Promise.all([...]).then(() => self.skipWaiting()): all three populations done
InstallThen ==
    /\ install.pc = "running"
    /\ PromiseAllFulfilled(install.tier)
    /\ install' = [install EXCEPT !.pc = "settled", !.waitUntil = "resolved",
                                  !.skipWaitingRequested = TRUE]
    /\ skipWaiting' = TRUE
    /\ UNCHANGED <<caches, activate, clearing, clientMsgs, portReplies, stores, replay,
                   remote, fetchers, puts, shown, origin, windows, click, health,
                   registered, now, hist>>

\* A catch handler that activates the worker all the same
InstallCatch_SkipWaiting ==
    /\ install.pc = "running"
    /\ \E t \in Tiers : install.tier[t] = "failed"
    /\ install' = [install EXCEPT !.pc = "settled", !.waitUntil = "resolved",
                                  !.caught = TRUE, !.skipWaitingRequested = TRUE]
    /\ skipWaiting' = TRUE
    /\ UNCHANGED <<caches, activate, clearing, clientMsgs, portReplies, stores, replay,
                   remote, fetchers, puts, shown, origin, windows, click, health,
                   registered, now, hist>>

\* .catch(error => console.error(...)): Promise.all rejected as soon as one
\* population rejected; the handler logs and returns, so the promise given to
\* event.waitUntil is fulfilled.  The other populations keep running.
InstallCatch ==
    /\ install.pc = "running"
    /\ \E t \in Tiers : install.tier[t] = "failed"
    /\ install' = [install EXCEPT !.pc = "settled", !.waitUntil = "resolved",
                                  !.caught = TRUE]
    /\ UNCHANGED <<caches, activate, clearing, skipWaiting, clientMsgs, portReplies,
                   stores, replay, remote, fetchers, puts, shown, origin, windows,
                   click, health, registered, now, hist>>

----------------------------------------------------------------------------
(* activate listener, service-worker.js lines 88-127 *)

Clients == 1..MaxClients

ActivateIdle ==
    [pc |-> "idle", cleanup |-> "init", listed |-> <<>>, toDelete |-> <<>>,
     claim |-> "init"]

\* A filter that leaves out the startsWith('lumina-') test
StaleCacheNames_AnyPrefix(cacheNames) ==
    SelectSeq(cacheNames, LAMBDA n : n \notin Range(validCacheNames))

\* The filter of the activate listener: the names activation deletes
StaleCacheNames(cacheNames) ==
    SelectSeq(cacheNames,
              LAMBDA n : StartsWithLumina(n) /\ n \notin Range(validCacheNames))

\* The platform dispatches activate once the install's deferred work is
\* fulfilled.  The listener calls caches.keys() and self.clients.claim().
ActivateEvent ==
    /\ install.waitUntil = "resolved"
    /\ activate.pc = "idle"
    /\ activate' = [ActivateIdle EXCEPT !.pc = "running", !.claim = "started"]
    /\ UNCHANGED <<caches, install, clearing, skipWaiting, clientMsgs, portReplies,
                   stores, replay, remote, fetchers, puts, shown, origin, windows,
                   click, health, registered, now, hist>>

\* caches.keys() resolves: caches.delete is called for every stale name
ActivateKeys ==
    /\ activate.pc = "running"
    /\ activate.cleanup = "init"
    /\ LET stale == StaleCacheNames(CachesKeys(caches))
       IN activate' = [activate EXCEPT
                         !.listed = CachesKeys(caches),
                         !.toDelete = stale,
                         !.cleanup = IF stale = <<>> THEN "done" ELSE "deleting"]
    /\ UNCHANGED <<caches, install, clearing, skipWaiting, clientMsgs, portReplies,
                   stores, replay, remote, fetchers, puts, shown, origin, windows,
                   click, health, registered, now, hist>>

\* The next caches.delete(cacheName) of activation completes: CacheStorage
\* serves the deletes in the order the map issued them.  Promise.all resolves
\* with the last one.
ActivateDelete ==
    /\ activate.pc = "running"
    /\ activate.cleanup = "deleting"
    /\ caches' = CachesDelete(caches, Head(activate.toDelete))
    /\ activate' = [activate EXCEPT
                      !.toDelete = Tail(@),
                      !.cleanup = IF Len(activate.toDelete) = 1 THEN "done" ELSE "deleting"]
    /\ hist' = [hist EXCEPT
                  !.storedLive =
                        @ \cap StoredUrls(CachesDelete(caches, Head(activate.toDelete))),
                  !.storedSinceEvict =
                        @ \ DOMAIN EntriesOf(caches, Head(activate.toDelete))]
    /\ UNCHANGED <<install, clearing, skipWaiting, clientMsgs, portReplies, stores,
                   replay, remote, fetchers, puts, shown, origin, windows, click,
                   health, registered, now>>

\* self.clients.claim() resolves
ActivateClaim ==
    /\ activate.pc = "running"
    /\ activate.claim = "started"
    /\ activate' = [activate EXCEPT !.claim = "done"]
    /\ UNCHANGED <<caches, install, clearing, skipWaiting, clientMsgs, portReplies,
                   stores, replay, remote, fetchers, puts, shown, origin, windows,
                   click, health, registered, now, hist>>

\* client.postMessage({ type: 'SW_ACTIVATED', version: APP_VERSION, ... })
ActivatedMessage == [type |-> "SW_ACTIVATED", version |-> APP_VERSION]

\* A broadcast that does not wait for self.clients.claim()
ActivateBroadcast_BeforeClaim ==
    /\ activate.pc = "running"
    /\ activate.cleanup = "done"
    /\ clientMsgs' = [c \in Clients |-> clientMsgs[c] \cup {ActivatedMessage}]
    /\ activate' = [activate EXCEPT !.pc = "done"]
    /\ UNCHANGED <<caches, install, clearing, skipWaiting, portReplies, stores, replay,
                   remote, fetchers, puts, shown, origin, windows, click, health,
                   registered, now, hist>>

\* .then(() => clients.matchAll().then(clients => clients.forEach(postMessage)))
ActivateBroadcast ==
    /\ activate.pc = "running"
    /\ activate.cleanup = "done"
    /\ activate.claim = "done"
    /\ clientMsgs' = [c \in Clients |-> clientMsgs[c] \cup {ActivatedMessage}]
    /\ activate' = [activate EXCEPT !.pc = "done"]
    /\ UNCHANGED <<caches, install, clearing, skipWaiting, portReplies, stores, replay,
                   remote, fetchers, puts, shown, origin, windows, click, health,
                   registered, now, hist>>

----------------------------------------------------------------------------
(* message listener: CLEAR_CACHE, and clearAllCaches, lines 649-653, 716-729 *)

ClearIdle == [pc |-> "idle", listed |-> <<>>, toDelete |-> <<>>, rejected |-> FALSE]

\* A filter that selects the tiers of the current generation only
ClearableCacheNames_CurrentOnly(cacheNames) ==
    SelectSeq(cacheNames, LAMBDA n : n \in Range(validCacheNames))

\* names clearAllCaches deletes: filter(name => name.startsWith('lumina-'))
ClearableCacheNames(cacheNames) == SelectSeq(cacheNames, StartsWithLumina)

\* case 'CLEAR_CACHE': clearAllCaches() is called and awaits caches.keys()
ClearCacheMessage ==
    /\ clearing.pc = "idle"
    /\ hist.clears < MaxClears
    /\ clearing' = [ClearIdle EXCEPT !.pc = "keys"]
    /\ hist' = [hist EXCEPT !.clears = @ + 1]
    /\ UNCHANGED <<caches, install, activate, skipWaiting, clientMsgs, portReplies,
                   stores, replay, remote, fetchers, puts, shown, origin, windows,
                   click, health, registered, now>>

\* caches.keys() resolves: caches.delete is called for every 'lumina-' name
ClearKeys ==
    /\ clearing.pc = "keys"
    /\ clearing' = [pc |-> "deleting",
                    listed |-> CachesKeys(caches),
                    toDelete |-> ClearableCacheNames(CachesKeys(caches)),
                    rejected |-> FALSE]
    /\ UNCHANGED <<caches, install, activate, skipWaiting, clientMsgs, portReplies,
                   stores, replay, remote, fetchers, puts, shown, origin, windows,
                   click, health, registered, now, hist>>

\* clearAllCaches once one more of its deletes has settled: after the reply
\* nothing is left of the call when the last delete has settled
AfterDelete(c) ==
    IF c.pc = "replied" /\ Len(c.toDelete) = 1 THEN ClearIdle
    ELSE [c EXCEPT !.toDelete = Tail(@)]

\* the next caches.delete(name) of clearAllCaches completes
ClearDelete ==
    /\ clearing.pc \in {"deleting", "replied"}
    /\ clearing.toDelete # <<>>
    /\ caches' = CachesDelete(caches, Head(clearing.toDelete))
    /\ clearing' = AfterDelete(clearing)
    /\ hist' = [hist EXCEPT
                  !.storedLive =
                        @ \cap StoredUrls(CachesDelete(caches, Head(clearing.toDelete)))]
    /\ UNCHANGED <<install, activate, skipWaiting, clientMsgs, portReplies, stores,
                   replay, remote, fetchers, puts, shown, origin, windows, click,
                   health, registered, now>>

\* the next caches.delete(name) of clearAllCaches rejects (a storage fault):
\* the cache stays, and Promise.all rejects
ClearDeleteRejects ==
    /\ clearing.pc \in {"deleting", "replied"}
    /\ clearing.toDelete # <<>>
    /\ hist.deleteFailures < hist.scope.faults
    /\ clearing' = [AfterDelete(clearing) EXCEPT
                        !.rejected = clearing.pc = "deleting" \/ Len(clearing.toDelete) > 1]
    /\ hist' = [hist EXCEPT !.deleteFailures = @ + 1]
    /\ UNCHANGED <<caches, install, activate, skipWaiting, clientMsgs, portReplies,
                   stores, replay, remote, fetchers, puts, shown, origin, windows,
                   click, health, registered, now>>

\* what clearAllCaches returns: true after Promise.all resolved, false from
\* its catch block
ClearSuccess(c) == ~c.rejected

\* clearAllCaches returns, as soon as one delete rejected or when all have
\* completed; .then(success => event.ports[0].postMessage({ success })).
\* The deletes still outstanding after a rejection go on.
ClearReply ==
    /\ clearing.pc = "deleting"
    /\ clearing.rejected \/ clearing.toDelete = <<>>
    /\ portReplies' = portReplies \cup {[type |-> "CLEAR_CACHE",
                                          success |-> ClearSuccess(clearing)]}
    /\ clearing' = IF clearing.toDelete = <<>> THEN ClearIdle
                   ELSE [clearing EXCEPT !.pc = "replied"]
    /\ UNCHANGED <<caches, install, activate, skipWaiting, clientMsgs, stores, replay,
                   remote, fetchers, puts, shown, origin, windows, click, health,
                   registered, now, hist>>

\* The reply to GET_CACHE_STATUS: an object literal of the worker's constants
CacheStatusReply ==
    [type |-> "GET_CACHE_STATUS", cached |-> TRUE, version |-> APP_VERSION,
     caches |-> {STATIC_CACHE, DYNAMIC_CACHE, RUNTIME_CACHE, ASSETS_CACHE}]

\* case 'GET_CACHE_STATUS': event.ports[0].postMessage({...})
CacheStatusMessage ==
    /\ portReplies' = portReplies \cup {CacheStatusReply}
    /\ UNCHANGED <<caches, install, activate, clearing, skipWaiting, clientMsgs,
                   stores, replay, remote, fetchers, puts, shown, origin, windows,
                   click, health, registered, now, hist>>

\* case 'SKIP_WAITING': self.skipWaiting()
SkipWaitingMessage ==
    /\ ~skipWaiting
    /\ skipWaiting' = TRUE
    /\ UNCHANGED <<caches, install, activate, clearing, clientMsgs, portReplies,
                   stores, replay, remote, fetchers, puts, shown, origin, windows,
                   click, health, registered, now, hist>>

----------------------------------------------------------------------------
(* The key -> JSON store: getStoredData, storeData, clearStoredData,       *)
(* service-worker.js lines 684-714                                         *)

Topics == {"exercise", "health", "settings"}

\* the key each sync function reads and clears
TopicKey(t) ==
    CASE t = "exercise" -> "pending-exercise-data"
      [] t = "health" -> "pending-health-data"
      [] t = "settings" -> "pending-settings"

\* the tag the sync listener dispatches on
TopicTag(t) ==
    CASE t = "exercise" -> "sync-exercise-data"
      [] t = "health" -> "sync-eye-health"
      [] t = "settings" -> "sync-user-settings"

\* `/data/${key}`
DataUrl(key) == SameOrigin(<<"/data/", key>>)

\* JSON values: an array of mutation payloads, or an object
JsonArray(items) == [kind |-> "array", items |-> items]

JsonObject(id) == [kind |-> "object", items |-> <<id>>]

\* JSON.stringify(value), the body of the stored Response
JsonStringify(v) ==
    IF v.kind = "array"
    THEN [text |-> "[..]", items |-> v.items]
    ELSE [text |-> "{..}", items |-> v.items]

\* response.json()
JsonParse(body) ==
    IF body.text = "[..]" THEN JsonArray(body.items) ELSE JsonObject(body.items[1])

Null == [kind |-> "null", items |-> <<>>]

DocsOf(cs) == IF CachesHas(cs, DATA_CACHE) THEN CacheOf(cs, DATA_CACHE).docs ELSE NoEntries

\* cache.match(`/data/${key}`) then response.json(), or null
DocRead(cs, key) ==
    IF DataUrl(key) \in DOMAIN DocsOf(cs)
    THEN JsonParse(DocsOf(cs)[DataUrl(key)].body)
    ELSE Null

\* cache.put(`/data/${key}`, new Response(JSON.stringify(value)))
DocPut(cs, key, value) ==
    [i \in 1..Len(cs) |->
        IF cs[i].name = DATA_CACHE
        THEN [cs[i] EXCEPT !.docs = Put(@, DataUrl(key),
                                        [status |-> 200, body |-> JsonStringify(value)])]
        ELSE cs[i]]

\* cache.delete(`/data/${key}`)
DocDelete(cs, key) ==
    [i \in 1..Len(cs) |->
        IF cs[i].name = DATA_CACHE
        THEN [cs[i] EXCEPT !.docs = Remove(@, DataUrl(key))]
        ELSE cs[i]]

\* The mutations queued under a topic: the items of its record
Queued(cs, t) ==
    LET v == DocRead(cs, TopicKey(t))
    IN IF v = Null THEN <<>> ELSE v.items

----------------------------------------------------------------------------
(* message listener: STORE_EXERCISE_DATA, lines 632-634 *)

Payloads == 1..MaxQueue

SettingsObjects == {"s1", "s2"}

RemoteInit == [data |-> [p \in Payloads |-> 0], settings |-> [o \in SettingsObjects |-> 0]]

\* What a page sends as the value of an array topic: the one mutation it
\* wants queued, or the whole queue it holds, mutations 1..k
ArraysOver(n) == {<<k>> : k \in 1..n} \cup {[i \in 1..k |-> i] : k \in 1..n}

\* data.value of a STORE_EXERCISE_DATA message, by data.key
MessageValues(t) ==
    IF t = "settings" THEN {JsonObject(o) : o \in SettingsObjects}
    ELSE {JsonArray(a) : a \in ArraysOver(MaxQueue)}

\* case 'STORE_EXERCISE_DATA': storeData(data.key, data.value), not awaited
StoreDataMessage ==
    /\ hist.enqueues < MaxEnqueues
    /\ \E t \in hist.scope.topics :
        \E v \in MessageValues(t) :
            stores' = stores \cup {[key |-> TopicKey(t), topic |-> t,
                                    value |-> v, pc |-> "open"]}
    /\ hist' = [hist EXCEPT !.enqueues = @ + 1]
    /\ UNCHANGED <<caches, install, activate, clearing, skipWaiting, clientMsgs,
                   portReplies, replay, remote, fetchers, puts, shown, origin, windows,
                   click, health, registered, now>>

\* storeData: await caches.open('lumina-ai-data')
StoreOpen(s) ==
    /\ s \in stores
    /\ s.pc = "open"
    /\ caches' = CachesOpen(caches, DATA_CACHE)
    /\ stores' = (stores \ {s}) \cup {[s EXCEPT !.pc = "put"]}
    /\ UNCHANGED <<install, activate, clearing, skipWaiting, clientMsgs, portReplies,
                   replay, remote, fetchers, puts, shown, origin, windows, click,
                   health, registered, now, hist>>

\* storeData: await cache.put(`/data/${key}`, response)
StorePut(s) ==
    /\ s \in stores
    /\ s.pc = "put"
    /\ caches' = DocPut(caches, s.key, s.value)
    /\ stores' = stores \ {s}
    /\ hist' = [hist EXCEPT !.stored = @ + 1]
    /\ UNCHANGED <<install, activate, clearing, skipWaiting, clientMsgs, portReplies,
                   replay, remote, fetchers, puts, shown, origin, windows, click,
                   health, registered, now>>

----------------------------------------------------------------------------
(* sync listener and syncExerciseData / syncEyeHealthData /                *)
(* syncUserSettings, service-worker.js lines 430-526                       *)

Replays == 1..MaxReplay

ReplayIdle ==
    [pc |-> "idle", topic |-> "none", data |-> <<>>, i |-> 0,
     failed |-> FALSE, non2xx |-> FALSE, cleared |-> FALSE, notified |-> FALSE,
     readFault |-> FALSE]

\* the outcome of one outbound fetch: a 2xx response, another status, or a
\* rejection (network error)
CallOutcomes == {"2xx", "non2xx", "neterr"}

\* The sync listener: switch (event.tag), event.waitUntil(sync...())
SyncEvent(r, t) ==
    /\ replay[r].pc = "idle"
    /\ \A q \in Replays : q < r => replay[q].pc # "idle"
    /\ hist.syncs < MaxSyncs
    /\ t \in hist.scope.topics
    /\ r <= hist.scope.replays
    /\ replay' = [replay EXCEPT ![r] = [ReplayIdle EXCEPT !.pc = "open", !.topic = t]]
    /\ hist' = [hist EXCEPT !.syncs = @ + 1]
    /\ UNCHANGED <<caches, install, activate, clearing, skipWaiting, clientMsgs,
                   portReplies, stores, remote, fetchers, puts, shown, origin, windows,
                   click, health, registered, now>>

\* getStoredData: await caches.open('lumina-ai-data')
ReplayOpen(r) ==
    /\ replay[r].pc = "open"
    /\ caches' = CachesOpen(caches, DATA_CACHE)
    /\ replay' = [replay EXCEPT ![r].pc = "read"]
    /\ UNCHANGED <<install, activate, clearing, skipWaiting, clientMsgs, portReplies,
                   stores, remote, fetchers, puts, shown, origin, windows, click,
                   health, registered, now, hist>>

\* A test that takes the null of a faulted read for a record to replay
HasWork_NullIsWork(t, v) == v = Null \/ t = "settings" \/ Len(v.items) > 0

\* if (exerciseData && exerciseData.length > 0), if (healthData && ...),
\* if (settings)
HasWork(t, v) ==
    IF t = "settings" THEN v # Null
    ELSE v # Null /\ v.kind = "array" /\ Len(v.items) > 0

\* A read that leaves out the mutations another replay of the topic holds
ReplayRead_SkipHeld(r) ==
    /\ replay[r].pc = "read"
    /\ LET v == DocRead(caches, TopicKey(replay[r].topic))
           held == UNION {Range(replay[q].data) : q \in Replays \ {r}}
           rest == IF v.kind = "array"
                   THEN [v EXCEPT !.items = SelectSeq(v.items, LAMBDA m : m \notin held)]
                   ELSE v
       IN replay' = [replay EXCEPT
                       ![r].data = rest.items,
                       ![r].i = 1,
                       ![r].pc = IF HasWork(replay[r].topic, rest) THEN "send" ELSE "done"]
    /\ UNCHANGED <<caches, install, activate, clearing, skipWaiting, clientMsgs,
                   portReplies, stores, remote, fetchers, puts, shown, origin, windows,
                   click, health, registered, now, hist>>

\* getStoredData: cache.match and response.json() resolve; the sync function
\* goes on to its first fetch or returns
ReplayRead(r) ==
    /\ replay[r].pc = "read"
    /\ LET v == DocRead(caches, TopicKey(replay[r].topic))
       IN replay' = [replay EXCEPT
                       ![r].data = v.items,
                       ![r].i = 1,
                       ![r].pc = IF HasWork(replay[r].topic, v) THEN "send" ELSE "done"]
    /\ UNCHANGED <<caches, install, activate, clearing, skipWaiting, clientMsgs,
                   portReplies, stores, remote, fetchers, puts, shown, origin, windows,
                   click, health, registered, now, hist>>

\* What the sync function does with the settled fetch: it awaits the promise
\* and never looks at the response, so only a rejection leaves the loop.
AfterCall(outcome, last) ==
    IF outcome = "neterr" THEN "done"
    ELSE IF last THEN "clearOpen" ELSE "send"

\* A loop that walks the queued mutations from the last to the first
ReplaySend_Backwards(r) ==
    /\ replay[r].pc = "send"
    /\ \E outcome \in CallOutcomes :
        LET me == replay[r]
            last == me.i = Len(me.data)
            item == me.data[Len(me.data) + 1 - me.i]
        IN /\ replay' = [replay EXCEPT
                           ![r].pc = AfterCall(outcome, last),
                           ![r].i = me.i + 1,
                           ![r].failed = me.failed \/ outcome # "2xx",
                           ![r].non2xx = me.non2xx \/ outcome = "non2xx"]
           /\ remote' = IF outcome = "neterr" THEN remote
                        ELSE IF me.topic = "settings"
                             THEN [remote EXCEPT !.settings[item] = @ + 1]
                        ELSE [remote EXCEPT !.data[item] = @ + 1]
    /\ UNCHANGED <<caches, install, activate, clearing, skipWaiting, clientMsgs,
                   portReplies, stores, fetchers, puts, shown, origin, windows, click,
                   health, registered, now, hist>>

\* await fetch(endpoint, { method, body: JSON.stringify(data) }) settles
ReplaySend(r) ==
    /\ replay[r].pc = "send"
    /\ \E outcome \in CallOutcomes :
        LET me == replay[r]
            last == me.i = Len(me.data)
        IN /\ replay' = [replay EXCEPT
                           ![r].pc = AfterCall(outcome, last),
                           ![r].i = me.i + 1,
                           ![r].failed = me.failed \/ outcome # "2xx",
                           ![r].non2xx = me.non2xx \/ outcome = "non2xx"]
           /\ remote' = IF outcome = "neterr" THEN remote
                        ELSE IF me.topic = "settings"
                             THEN [remote EXCEPT !.settings[me.data[me.i]] = @ + 1]
                        ELSE [remote EXCEPT !.data[me.data[me.i]] = @ + 1]
    /\ UNCHANGED <<caches, install, activate, clearing, skipWaiting, clientMsgs,
                   portReplies, stores, fetchers, puts, shown, origin, windows, click,
                   health, registered, now, hist>>

\* clearStoredData: await caches.open('lumina-ai-data')
ReplayClearOpen(r) ==
    /\ replay[r].pc = "clearOpen"
    /\ caches' = CachesOpen(caches, DATA_CACHE)
    /\ replay' = [replay EXCEPT ![r].pc = "clearDelete"]
    /\ UNCHANGED <<install, activate, clearing, skipWaiting, clientMsgs, portReplies,
                   stores, remote, fetchers, puts, shown, origin, windows, click,
                   health, registered, now, hist>>

\* what follows clearStoredData: only syncExerciseData notifies the clients
AfterClear(t) == IF t = "exercise" THEN "notify" ELSE "done"

\* clearStoredData: await cache.delete(`/data/${key}`)
ReplayClearDelete(r) ==
    /\ replay[r].pc = "clearDelete"
    /\ caches' = DocDelete(caches, TopicKey(replay[r].topic))
    /\ replay' = [replay EXCEPT ![r].pc = AfterClear(replay[r].topic),
                                ![r].cleared = TRUE]
    /\ UNCHANGED <<install, activate, clearing, skipWaiting, clientMsgs, portReplies,
                   stores, remote, fetchers, puts, shown, origin, windows, click,
                   health, registered, now, hist>>

\* clients.matchAll() and client.postMessage({ type: 'EXERCISE_DATA_SYNCED' })
ReplayNotify(r) ==
    /\ replay[r].pc = "notify"
    /\ clientMsgs' = [c \in Clients |-> clientMsgs[c] \cup {[type |-> "EXERCISE_DATA_SYNCED"]}]
    /\ replay' = [replay EXCEPT ![r].pc = "done", ![r].notified = TRUE]
    /\ UNCHANGED <<caches, install, activate, clearing, skipWaiting, portReplies,
                   stores, remote, fetchers, puts, shown, origin, windows, click,
                   health, registered, now, hist>>

\* the promise given to event.waitUntil settles: the sync event is over
ReplayFinish(r) ==
    /\ replay[r].pc = "done"
    /\ replay' = [replay EXCEPT ![r] = ReplayIdle]
    /\ UNCHANGED <<caches, install, activate, clearing, skipWaiting, clientMsgs,
                   portReplies, stores, remote, fetchers, puts, shown, origin, windows,
                   click, health, registered, now, hist>>

----------------------------------------------------------------------------
(* The catch blocks of getStoredData, storeData and clearStoredData,       *)
(* service-worker.js lines 684-714: an operation of CacheStorage rejects   *)

\* getStoredData: caches.open, cache.match or response.json() rejects; the
\* catch logs and returns null, and the sync function tests the null
ReplayReadFaults(r) ==
    /\ replay[r].pc \in {"open", "read"}
    /\ hist.storageFaults < MaxStorageFaults
    /\ replay' = [replay EXCEPT
                    ![r].data = Null.items,
                    ![r].i = 1,
                    ![r].readFault = TRUE,
                    ![r].pc = IF HasWork(replay[r].topic, Null) THEN "send" ELSE "done"]
    /\ hist' = [hist EXCEPT !.storageFaults = @ + 1]
    /\ UNCHANGED <<caches, install, activate, clearing, skipWaiting, clientMsgs,
                   portReplies, stores, remote, fetchers, puts, shown, origin, windows,
                   click, health, registered, now>>

\* storeData: caches.open or cache.put rejects; the catch logs and the call
\* resolves
StoreFaults(s) ==
    /\ s \in stores
    /\ s.pc \in {"open", "put"}
    /\ hist.storageFaults < MaxStorageFaults
    /\ stores' = stores \ {s}
    /\ hist' = [hist EXCEPT !.storageFaults = @ + 1]
    /\ UNCHANGED <<caches, install, activate, clearing, skipWaiting, clientMsgs,
                   portReplies, replay, remote, fetchers, puts, shown, origin, windows,
                   click, health, registered, now>>

\* clearStoredData: caches.open or cache.delete rejects; the catch logs and
\* the sync function goes on as after a delete
ReplayClearFaults(r) ==
    /\ replay[r].pc \in {"clearOpen", "clearDelete"}
    /\ hist.storageFaults < MaxStorageFaults
    /\ replay' = [replay EXCEPT ![r].pc = AfterClear(replay[r].topic)]
    /\ hist' = [hist EXCEPT !.storageFaults = @ + 1]
    /\ UNCHANGED <<caches, install, activate, clearing, skipWaiting, clientMsgs,
                   portReplies, stores, remote, fetchers, puts, shown, origin, windows,
                   click, health, registered, now>>

----------------------------------------------------------------------------
(* fetch listener and the caching strategies, service-worker.js 130-307 *)

Fetchers == 1..MaxFetch

Get(url, destination) == [method |-> "GET", url |-> url, destination |-> destination]

\* The requests the pages of the application issue
Requests ==
    { Get(SameOrigin(<<"/icons/", "icon-192", ".png">>), "image"),
      Get(SameOrigin(<<"/icons/", "icon-192x192", ".png">>), "image"),
      Get(SameOrigin(<<"/", "app", ".js">>), "script"),
      Get(SameOrigin(<<"/", "index", ".html">>), "document"),
      Get(SameOrigin(<<"/api/", "stats">>), ""),
      Get(SameOrigin(<<"/api/", "badge", ".png">>), "image"),
      [method |-> "POST", url |-> SameOrigin(<<"/api/", "exercises/progress">>),
       destination |-> ""],
      Get([protocol |-> "chrome-extension:", host |-> <<"abcdef">>,
           path |-> <<"/", "inject", ".js">>], "script"),
      Get([protocol |-> "moz-extension:", host |-> <<"abcdef">>,
           path |-> <<"/", "inject", ".js">>], "script"),
      Get(CrossOrigin(<<"fonts.gstatic.com">>, <<"/s/", "inter", ".woff2">>), "font"),
      Get(CrossOrigin(<<"api.", "cdn.example">>, <<"/", "static", "/", "lib", ".js">>),
          "script"),
      Get(CrossOrigin(<<"cdn.example">>, <<"/", "lib", ".js">>), "script"),
      Get(CrossOrigin(<<"cdn.example">>, <<"/api/", "stats">>), "") }

\* pathname.startsWith(prefix)
PathStartsWith(path, prefix) == Len(path) >= 1 /\ path[1] = prefix

\* pathname.includes(piece)
PathIncludes(path, piece) == \E i \in 1..Len(path) : path[i] = piece

\* pathname.endsWith(ext)
PathEndsWith(path, ext) == Len(path) >= 1 /\ path[Len(path)] = ext

\* request.url.includes(piece)
UrlIncludes(url, piece) == piece \in Range(url.host) \cup Range(url.path)

isStaticAsset(pathname) ==
    \/ PathIncludes(pathname, "/icons/")
    \/ PathIncludes(pathname, "/screenshots/")
    \/ PathEndsWith(pathname, ".css")
    \/ PathEndsWith(pathname, ".js")
    \/ PathEndsWith(pathname, ".png")
    \/ PathEndsWith(pathname, ".svg")
    \/ PathEndsWith(pathname, ".jpg")
    \/ PathEndsWith(pathname, ".jpeg")
    \/ PathEndsWith(pathname, ".webp")

isFontRequest(url) ==
    \/ url.host = <<"fonts.googleapis.com">>
    \/ url.host = <<"fonts.gstatic.com">>

shouldCacheExternal(url) ==
    \/ UrlIncludes(url, "fonts.googleapis.com")
    \/ UrlIncludes(url, "fonts.gstatic.com")
    \/ (UrlIncludes(url, "api.") /\ UrlIncludes(url, "static"))

\* handleSameOriginRequest: the strategy of a same-origin request
SameOriginStrategy(request) ==
    IF \E i \in 1..Len(NETWORK_FIRST_URLS) :
            PathStartsWith(request.url.path, NETWORK_FIRST_URLS[i])
    THEN "networkFirst"
    ELSE IF isStaticAsset(request.url.path) THEN "cacheFirst"
    ELSE IF request.destination = "document" \/ PathEndsWith(request.url.path, ".html")
         THEN "staleWhileRevalidate"
    ELSE "cacheFirst"

\* The fetch listener: which handler answers the request, "none" when the
\* listener returns without calling respondWith
Route(request) ==
    IF request.method # "GET" \/ request.url.protocol = "chrome-extension:" THEN "none"
    ELSE IF request.url.host = LocationHost /\ request.url.protocol = "https:"
         THEN SameOriginStrategy(request)
    ELSE IF isFontRequest(request.url) THEN "font"
    ELSE "external"

\* The cache a handler opens for its cache.put
TargetCache(strategy) ==
    IF strategy \in {"font", "external"} THEN DYNAMIC_CACHE ELSE RUNTIME_CACHE

NoResponse == [status |-> 0, body |-> "none"]

\* new Response('', { status: 404 })
Placeholder == [status |-> 404, body |-> ""]

\* createOfflineExercisePage()
OfflinePage == [status |-> 200, body |-> "offlineHTML"]

\* A response whose status reads 0: an opaque cross-origin response, or the
\* opaque redirect a navigation request gets
Opaque == [status |-> 0, body |-> "opaque"]

\* What fetch(request) settles to: a response (a 200, an error status, an
\* opaque one), or a rejection
NetworkOutcomes ==
    {[ok |-> TRUE, resp |-> [status |-> 200, body |-> b]] : b \in Bodies}
    \cup {[ok |-> TRUE, resp |-> [status |-> 404, body |-> "notfound"]],
          [ok |-> TRUE, resp |-> Opaque],
          [ok |-> FALSE, resp |-> NoResponse]}

FetchIdle ==
    [pc |-> "idle", request |-> "none", strategy |-> "none", cached |-> NoResponse,
     network |-> NoResponse, netAttempts |-> 0, result |-> "none",
     responded |-> FALSE, storedLive |-> FALSE, storedSinceEvict |-> FALSE]

\* the handler found the request in a cache
Hit(me) == me.cached # NoResponse

\* The response the handler gives to respondWith
ResponseOf(me) ==
    CASE me.result = "cache" -> me.cached
      [] me.result = "network" -> me.network
      [] me.result = "offlinePage" -> OfflinePage
      [] me.result = "placeholder" -> Placeholder
      [] OTHER -> NoResponse

\* The handler's first await: the network-first handlers start with fetch,
\* the others with caches.match
FirstStep(strategy) ==
    CASE strategy = "none" -> "done"
      [] strategy \in {"networkFirst", "external"} -> "net"
      [] OTHER -> "match"

\* The platform dispatches a fetch event
FetchEvent(f, request) ==
    /\ fetchers[f].pc = "idle"
    /\ \A g \in Fetchers : g < f => fetchers[g].pc # "idle"
    /\ request \in hist.scope.requests
    /\ f <= hist.scope.fetches
    /\ hist.requests < MaxRequests
    /\ fetchers' = [fetchers EXCEPT ![f] =
            [FetchIdle EXCEPT !.pc = FirstStep(Route(request)),
                              !.request = request,
                              !.strategy = Route(request),
                              !.result = IF Route(request) = "none"
                                         THEN "notIntercepted" ELSE "none"]]
    /\ hist' = [hist EXCEPT !.requests = @ + 1]
    /\ UNCHANGED <<caches, install, activate, clearing, skipWaiting, clientMsgs,
                   portReplies, stores, replay, remote, puts, shown, origin, windows,
                   click, health, registered, now>>

\* A handler that goes to the network whatever caches.match found
AfterMatch_AlwaysNet(strategy, found) == "net"

\* What a handler does once its first caches.match has resolved
AfterMatch(strategy, found) ==
    IF strategy = "staleWhileRevalidate" THEN "net"
    ELSE IF found THEN "done" ELSE "net"

\* await caches.match(request) resolves at the head of handleCacheFirst,
\* handleStaleWhileRevalidate and handleFontRequest
FetchMatch(f) ==
    /\ fetchers[f].pc = "match"
    /\ LET me == fetchers[f]
           m == CachesMatch(caches, me.request.url)
       IN fetchers' = [fetchers EXCEPT
            ![f].pc = AfterMatch(me.strategy, m.found),
            ![f].cached = IF m.found THEN m.resp ELSE NoResponse,
            ![f].result = IF m.found THEN "cache" ELSE "none",
            ![f].responded = m.found,
            ![f].storedLive = me.request.url \in hist.storedLive,
            ![f].storedSinceEvict = me.request.url \in hist.storedSinceEvict]
    /\ UNCHANGED <<caches, install, activate, clearing, skipWaiting, clientMsgs,
                   portReplies, stores, replay, remote, puts, shown, origin, windows,
                   click, health, registered, now, hist>>

\* A handler that stores every response but the error statuses
WillCache_NotOnError(strategy, request, resp) ==
    /\ resp.status # 404
    /\ strategy = "external" => shouldCacheExternal(request.url)

\* A handler that stores whatever the network answered
WillCache_AnyStatus(strategy, request, resp) == TRUE

\* if (networkResponse.status === 200 [&& shouldCacheExternal(request.url)])
WillCache(strategy, request, resp) ==
    /\ resp.status = 200
    /\ strategy = "external" => shouldCacheExternal(request.url)

\* The handler after fetch resolved with `resp`
AfterResponse(strategy, request, resp) ==
    IF strategy # "staleWhileRevalidate" /\ WillCache(strategy, request, resp)
    THEN "open" ELSE "done"

\* The handler after fetch rejected
AfterReject(strategy) ==
    IF strategy \in {"networkFirst", "font", "external"} THEN "fallback" ELSE "done"

\* The result of handleCacheFirst's catch and of handleStaleWhileRevalidate's
\* .catch(() => cachedResponse) when fetch rejected
RejectResult(me) ==
    CASE me.strategy = "cacheFirst" ->
            IF me.request.destination = "document" THEN "offlinePage" ELSE "error"
      [] me.strategy = "staleWhileRevalidate" ->
            IF Hit(me) THEN "cache" ELSE "undefined"
      [] OTHER -> "none"

\* fetch(request) settles
FetchNet(f) ==
    /\ fetchers[f].pc = "net"
    /\ \E o \in NetworkOutcomes :
        LET me == fetchers[f]
            swr == me.strategy = "staleWhileRevalidate"
        IN /\ fetchers' = [fetchers EXCEPT
                ![f].netAttempts = me.netAttempts + 1,
                ![f].network = o.resp,
                ![f].pc = IF o.ok THEN AfterResponse(me.strategy, me.request, o.resp)
                          ELSE AfterReject(me.strategy),
                ![f].result = IF swr /\ Hit(me) THEN "cache"
                              ELSE IF o.ok THEN "network"
                              ELSE RejectResult(me),
                ![f].responded = IF o.ok
                                 THEN AfterResponse(me.strategy, me.request, o.resp) = "done"
                                 ELSE AfterReject(me.strategy) = "done"]
           \* handleStaleWhileRevalidate: caches.open(RUNTIME_CACHE).then(put)
           /\ puts' = IF o.ok /\ swr /\ WillCache(me.strategy, me.request, o.resp)
                      THEN puts \cup {[cache |-> RUNTIME_CACHE, url |-> me.request.url,
                                       resp |-> o.resp, pc |-> "open"]}
                      ELSE puts
    /\ UNCHANGED <<caches, install, activate, clearing, skipWaiting, clientMsgs,
                   portReplies, stores, replay, remote, shown, origin, windows, click,
                   health, registered, now, hist>>

\* await caches.open(...) resolves; cache.put(request, clone) is called and
\* not awaited; the handler returns networkResponse
FetchOpen(f) ==
    /\ fetchers[f].pc = "open"
    /\ LET me == fetchers[f]
       IN /\ caches' = CachesOpen(caches, TargetCache(me.strategy))
          /\ puts' = puts \cup {[cache |-> TargetCache(me.strategy),
                                 url |-> me.request.url, resp |-> me.network,
                                 pc |-> "put"]}
          /\ fetchers' = [fetchers EXCEPT ![f].pc = "done", ![f].responded = TRUE]
    /\ UNCHANGED <<install, activate, clearing, skipWaiting, clientMsgs, portReplies,
                   stores, replay, remote, shown, origin, windows, click, health,
                   registered, now, hist>>

\* A catch block that rethrows whenever no cache holds the request
FallbackResult_Rethrow(strategy, found) == IF found THEN "cache" ELSE "error"

\* The result of the catch block of handleNetworkFirst, handleFontRequest
\* and handleExternalRequest
FallbackResult(strategy, found) ==
    IF found THEN "cache"
    ELSE IF strategy = "networkFirst" THEN "error" ELSE "placeholder"

\* catch: await caches.match(request) resolves
FetchFallback(f) ==
    /\ fetchers[f].pc = "fallback"
    /\ LET me == fetchers[f]
           m == CachesMatch(caches, me.request.url)
           res == FallbackResult(me.strategy, m.found)
       IN fetchers' = [fetchers EXCEPT
            ![f].pc = "done",
            ![f].responded = TRUE,
            ![f].cached = IF m.found THEN m.resp ELSE NoResponse,
            ![f].result = res]
    /\ UNCHANGED <<caches, install, activate, clearing, skipWaiting, clientMsgs,
                   portReplies, stores, replay, remote, puts, shown, origin, windows,
                   click, health, registered, now, hist>>

\* the promise given to event.respondWith has settled: the event is over
FetchFinish(f) ==
    /\ fetchers[f].pc = "done"
    /\ fetchers' = [fetchers EXCEPT ![f] = FetchIdle]
    /\ UNCHANGED <<caches, install, activate, clearing, skipWaiting, clientMsgs,
                   portReplies, stores, replay, remote, puts, shown, origin, windows,
                   click, health, registered, now, hist>>

\* caches.open(RUNTIME_CACHE) of handleStaleWhileRevalidate resolves
PutOpen(p) ==
    /\ p \in puts
    /\ p.pc = "open"
    /\ caches' = CachesOpen(caches, p.cache)
    /\ puts' = (puts \ {p}) \cup {[p EXCEPT !.pc = "put"]}
    /\ UNCHANGED <<install, activate, clearing, skipWaiting, clientMsgs, portReplies,
                   stores, replay, remote, fetchers, shown, origin, windows, click,
                   health, registered, now, hist>>

\* a cache.put(request, networkResponse.clone()) completes
PutComplete(p) ==
    /\ p \in puts
    /\ p.pc = "put"
    /\ caches' = CachePut(caches, p.cache, p.url, p.resp)
    /\ puts' = puts \ {p}
    /\ hist' = IF CachesHas(caches, p.cache)
               THEN [hist EXCEPT !.storedLive = @ \cup {p.url},
                                 !.storedSinceEvict = @ \cup {p.url}]
               ELSE hist
    /\ UNCHANGED <<install, activate, clearing, skipWaiting, clientMsgs, portReplies,
                   stores, replay, remote, fetchers, shown, origin, windows, click,
                   health, registered, now>>

----------------------------------------------------------------------------
(* push listener, service-worker.js lines 529-571.  An object is the       *)
(* function from its field names to their values, so that Object.assign    *)
(* and destructuring with defaults are computed field by field.            *)

\* defaultOptions
DefaultOptions ==
    [body |-> "Time for your 20-20-20 eye exercise break!",
     icon |-> "/icons/icon-192.png",
     badge |-> "/icons/badge-72.png",
     tag |-> "eye-exercise-reminder",
     data |-> [url |-> <<"/exercises.html", "?notification=break-reminder">>,
               exerciseType |-> "20-20-20"],
     actions |-> <<"start-exercise", "remind-later", "view-guidelines">>,
     silent |-> FALSE,
     requireInteraction |-> TRUE]

NoFields == [k \in {} |-> ""]

\* event.data of a push event: absent, a JSON object, or text that is not JSON
PushPayloads ==
    {[kind |-> "none", fields |-> NoFields], [kind |-> "text", fields |-> NoFields]}
    \cup {[kind |-> "json", fields |-> o] :
            o \in {NoFields,
                   [body |-> "Blink break"],
                   [body |-> "Palming time", tag |-> "palming"],
                   [renotify |-> TRUE],
                   [data |-> [exerciseType |-> "palming"]],
                   [data |-> [url |-> <<"/guide.html">>]],
                   [tag |-> "eye-exercise-reminder",
                    actions |-> <<"start-exercise">>,
                    data |-> [url |-> <<"/exercises.html">>,
                              exerciseType |-> "20-20-20"]]}}

\* An assignment that keeps the fields the target already has
ObjectAssign_KeepTarget(target, source) ==
    [k \in DOMAIN target \cup DOMAIN source |->
        IF k \in DOMAIN target THEN target[k] ELSE source[k]]

\* Object.assign(target, source)
ObjectAssign(target, source) ==
    [k \in DOMAIN target \cup DOMAIN source |->
        IF k \in DOMAIN source THEN source[k] ELSE target[k]]

\* The listener: event.data.json() throws on text that is not JSON, before
\* event.waitUntil; otherwise showNotification(title, defaultOptions)
PushEvent(p) ==
    /\ hist.pushes < MaxPushes
    /\ shown' = IF p.kind = "text" THEN shown
                ELSE Append(shown,
                            [title |-> "Lumina AI - Eye Exercise Reminder",
                             options |-> IF p.kind = "none" THEN DefaultOptions
                                         ELSE ObjectAssign(DefaultOptions, p.fields)])
    /\ hist' = [hist EXCEPT !.pushes = @ + 1, !.payload = p]
    /\ UNCHANGED <<caches, install, activate, clearing, skipWaiting, clientMsgs,
                   portReplies, stores, replay, remote, fetchers, puts, origin,
                   windows, click, health, registered, now>>

----------------------------------------------------------------------------
(* notificationclick listener, service-worker.js lines 574-619.  A URL     *)
(* string is the sequence of its pieces.                                   *)

\* event.action: one of the actions of the notifications, or '' for a click
\* on the notification itself
Actions == {"start-exercise", "view-guidelines", "remind-later", ""}

ClickIdle == [pc |-> "idle", action |-> "", data |-> NoFields]

\* event.notification.close(); self.clients.matchAll({ type: 'window' })
NotificationClick(i, action) ==
    /\ click.pc = "idle"
    /\ hist.clicks < MaxClicks
    /\ i \in 1..Len(shown)
    /\ shown' = [j \in 1..(Len(shown) - 1) |-> IF j < i THEN shown[j] ELSE shown[j + 1]]
    /\ click' = [pc |-> "matchAll", action |-> action, data |-> shown[i].options["data"]]
    /\ hist' = [hist EXCEPT !.clicks = @ + 1]
    /\ UNCHANGED <<caches, install, activate, clearing, skipWaiting, clientMsgs,
                   portReplies, stores, replay, remote, fetchers, puts, origin,
                   windows, health, registered, now>>

\* clients.find(c => c.url.includes('lumina')): its position, 0 for undefined
ExistingClient(ws) ==
    IF \E i \in 1..Len(ws) : "lumina" \in Range(ws[i].url)
    THEN CHOOSE i \in 1..Len(ws) :
            /\ "lumina" \in Range(ws[i].url)
            /\ \A j \in 1..(i - 1) : "lumina" \notin Range(ws[j].url)
    ELSE 0

\* A switch whose start-exercise case names the 20-20-20 exercise
TargetUrl_Fixed(action, url, exerciseType) ==
    CASE action = "start-exercise" ->
            <<"/exercises.html", "?", "quick=", "20-20-20", "&source=notification">>
      [] action = "view-guidelines" ->
            <<"/exercises.html", "?", "section=guidelines", "&source=notification">>
      [] action = "remind-later" -> <<"/exercises.html", "?", "action=remind-later">>
      [] OTHER -> url \o <<"?", "source=notification">>

\* switch (action): the URL given to clients.openWindow
TargetUrl(action, url, exerciseType) ==
    CASE action = "start-exercise" ->
            <<"/exercises.html", "?", "quick=", exerciseType, "&source=notification">>
      [] action = "view-guidelines" ->
            <<"/exercises.html", "?", "section=guidelines", "&source=notification">>
      [] action = "remind-later" -> <<"/exercises.html", "?", "action=remind-later">>
      [] OTHER -> url \o <<"?", "source=notification">>

\* clients.matchAll resolves: focus the existing window and post the action to
\* it, or open a window.  url and exerciseType are destructured from the
\* notification's data with their defaults.
ClickMatchAll ==
    /\ click.pc = "matchAll"
    /\ LET url == IF "url" \in DOMAIN click.data
                  THEN click.data["url"] ELSE <<"/exercises.html">>
           exerciseType == IF "exerciseType" \in DOMAIN click.data
                           THEN click.data["exerciseType"] ELSE "20-20-20"
           e == ExistingClient(windows)
       IN windows' =
            IF e # 0
            THEN [w \in 1..Len(windows) |->
                    IF w = e
                    THEN [windows[w] EXCEPT
                            !.focused = TRUE,
                            !.msgs = Append(@, [type |-> "NOTIFICATION_ACTION",
                                                action |-> click.action,
                                                exerciseType |-> exerciseType,
                                                data |-> click.data])]
                    ELSE [windows[w] EXCEPT !.focused = FALSE]]
            ELSE Append([w \in 1..Len(windows) |-> [windows[w] EXCEPT !.focused = FALSE]],
                        [url |-> origin \o TargetUrl(click.action, url, exerciseType),
                         focused |-> TRUE, msgs |-> <<>>])
    /\ click' = ClickIdle
    /\ UNCHANGED <<caches, install, activate, clearing, skipWaiting, clientMsgs,
                   portReplies, stores, replay, remote, fetchers, puts, shown, origin,
                   health, registered, now, hist>>

----------------------------------------------------------------------------
(* message listener: SCHEDULE_EXERCISE_REMINDER, scheduleExerciseReminder, *)
(* service-worker.js lines 655-657, 662-681                                *)

MsPerMinute == 60000

\* Date.now() advances
Tick ==
    /\ hist.ticks < MaxTicks
    /\ \E minutes \in {1, 20} : now' = now + minutes * MsPerMinute
    /\ hist' = [hist EXCEPT !.ticks = @ + 1]
    /\ UNCHANGED <<caches, install, activate, clearing, skipWaiting, clientMsgs,
                   portReplies, stores, replay, remote, fetchers, puts, shown, origin,
                   windows, click, health, registered>>

\* { exerciseType, intervalMinutes, lastReminder }
ReminderConfig(exerciseType, intervalMinutes, lastReminder) ==
    [exerciseType |-> exerciseType, intervalMinutes |-> intervalMinutes,
     lastReminder |-> lastReminder]

\* case 'SCHEDULE_EXERCISE_REMINDER': scheduleExerciseReminder(data), not
\* awaited; exerciseType and intervalMinutes are destructured from data with
\* their defaults, and the function starts with sync.register
ScheduleReminderMessage(data) ==
    /\ hist.schedules < MaxSchedules
    /\ stores' = stores \cup
            {[key |-> "exercise-reminder-config", topic |-> "reminder",
              value |-> Null, pc |-> "register",
              exerciseType |-> IF "exerciseType" \in DOMAIN data
                               THEN data["exerciseType"] ELSE "20-20-20",
              intervalMinutes |-> IF "intervalMinutes" \in DOMAIN data
                                  THEN data["intervalMinutes"] ELSE 20]}
    /\ hist' = [hist EXCEPT !.schedules = @ + 1]
    /\ UNCHANGED <<caches, install, activate, clearing, skipWaiting, clientMsgs,
                   portReplies, replay, remote, fetchers, puts, shown, origin, windows,
                   click, health, registered, now>>

\* await self.registration.sync.register('exercise-reminder') resolves;
\* storeData is called with lastReminder: Date.now()
ScheduleRegister(s) ==
    /\ s \in stores
    /\ s.pc = "register"
    /\ registered' = registered \cup {"exercise-reminder"}
    /\ stores' = (stores \ {s}) \cup
            {[key |-> s.key, topic |-> s.topic, pc |-> "open",
              value |-> JsonObject(ReminderConfig(s.exerciseType, s.intervalMinutes, now))]}
    /\ UNCHANGED <<caches, install, activate, clearing, skipWaiting, clientMsgs,
                   portReplies, replay, remote, fetchers, puts, shown, origin, windows,
                   click, health, now, hist>>

\* sync.register rejects, or registration.sync is undefined: the catch block
\* logs, storeData is never called
ScheduleRegisterRejects(s) ==
    /\ s \in stores
    /\ s.pc = "register"
    /\ stores' = stores \ {s}
    /\ UNCHANGED <<caches, install, activate, clearing, skipWaiting, clientMsgs,
                   portReplies, replay, remote, fetchers, puts, shown, origin, windows,
                   click, health, registered, now, hist>>

----------------------------------------------------------------------------
(* periodicsync listener and performExerciseHealthCheck, lines 732-777 *)

Healths == 1..MaxHealth

HealthIdle == [pc |-> "idle", tag |-> "", config |-> Null]

\* if (event.tag === 'exercise-health-check') event.waitUntil(...)
PeriodicSyncEvent(h, tag) ==
    /\ health[h].pc = "idle"
    /\ \A g \in Healths : g < h => health[g].pc # "idle"
    /\ h <= hist.scope.healths
    /\ hist.wakeups < MaxWakeups
    /\ health' = [health EXCEPT ![h] =
                    IF tag = "exercise-health-check"
                    THEN [pc |-> "open", tag |-> tag, config |-> Null]
                    ELSE [HealthIdle EXCEPT !.tag = tag]]
    /\ hist' = [hist EXCEPT !.wakeups = @ + 1]
    /\ UNCHANGED <<caches, install, activate, clearing, skipWaiting, clientMsgs,
                   portReplies, stores, replay, remote, fetchers, puts, shown, origin,
                   windows, click, registered, now>>

\* getStoredData: await caches.open('lumina-ai-data')
HealthOpen(h) ==
    /\ health[h].pc = "open"
    /\ caches' = CachesOpen(caches, DATA_CACHE)
    /\ health' = [health EXCEPT ![h].pc = "read"]
    /\ UNCHANGED <<install, activate, clearing, skipWaiting, clientMsgs, portReplies,
                   stores, replay, remote, fetchers, puts, shown, origin, windows,
                   click, registered, now, hist>>

\* A comparison that fires only once the interval is exceeded
ReminderDue_Late(config, t) ==
    t - config.lastReminder > config.intervalMinutes * MsPerMinute

\* timeSinceLastReminder >= intervalMs
ReminderDue(config, t) ==
    t - config.lastReminder >= config.intervalMinutes * 60 * 1000

\* getStoredData resolves: if (reminderConfig) and the comparison with
\* Date.now()
HealthRead(h) ==
    /\ health[h].pc = "read"
    /\ LET v == DocRead(caches, "exercise-reminder-config")
       IN health' = IF v = Null THEN [health EXCEPT ![h].pc = "done"]
                    ELSE [health EXCEPT
                            ![h].config = v,
                            ![h].pc = IF ReminderDue(v.items[1], now)
                                      THEN "show" ELSE "done"]
    /\ UNCHANGED <<caches, install, activate, clearing, skipWaiting, clientMsgs,
                   portReplies, stores, replay, remote, fetchers, puts, shown, origin,
                   windows, click, registered, now, hist>>

\* await showNotification(...) resolves; storeData is called with
\* { ...reminderConfig, lastReminder: Date.now() }
HealthShow(h) ==
    /\ health[h].pc = "show"
    /\ shown' = Append(shown,
            [title |-> "Lumina AI - Exercise Break Time!",
             options |->
                [body |-> "It's time for your regular eye exercise break.",
                 icon |-> "/icons/icon-192.png",
                 tag |-> "periodic-exercise-reminder",
                 data |-> [url |-> <<"/exercises.html", "?type=periodic-reminder">>,
                           exerciseType |-> health[h].config.items[1].exerciseType],
                 actions |-> <<"start-exercise", "remind-later">>]])
    /\ stores' = stores \cup
            {[key |-> "exercise-reminder-config", topic |-> "health-check", pc |-> "open",
              handler |-> h,
              value |-> JsonObject([health[h].config.items[1] EXCEPT !.lastReminder = now])]}
    /\ health' = [health EXCEPT ![h].pc = "store"]
    /\ hist' = [hist EXCEPT !.lastFired = now]
    /\ UNCHANGED <<caches, install, activate, clearing, skipWaiting, clientMsgs,
                   portReplies, replay, remote, fetchers, puts, origin, windows, click,
                   registered, now>>

\* performExerciseHealthCheck returns, after its storeData when it called
\* it: event.waitUntil settles
HealthFinish(h) ==
    /\ \/ health[h].pc = "done"
       \/ /\ health[h].pc = "store"
          /\ \A s \in stores : ~(s.topic = "health-check" /\ s.handler = h)
    /\ health' = [health EXCEPT ![h] = HealthIdle]
    /\ UNCHANGED <<caches, install, activate, clearing, skipWaiting, clientMsgs,
                   portReplies, stores, replay, remote, fetchers, puts, shown, origin,
                   windows, click, registered, now, hist>>

----------------------------------------------------------------------------
(* The platform tears the idle worker down and respawns it for the next    *)
(* event: work no event is waiting for is lost, CacheStorage persists.     *)

Restart ==
    /\ install.waitUntil # "pending"
    /\ activate.pc # "running"
    /\ \A r \in Replays : replay[r].pc = "idle"
    /\ \A f \in Fetchers : fetchers[f].pc = "idle" \/ fetchers[f].responded
    /\ click.pc = "idle"
    /\ \A h \in Healths : health[h].pc = "idle"
    /\ \/ stores # {}
       \/ puts # {}
       \/ clearing.pc # "idle"
       \/ \E t \in Tiers : install.tier[t] \in {"init", "opened"} /\ install.pc = "settled"
    /\ stores' = {}
    /\ puts' = {}
    /\ clearing' = ClearIdle
    /\ fetchers' = [f \in Fetchers |-> FetchIdle]
    /\ install' = [install EXCEPT !.tier =
                      [t \in Tiers |-> IF install.pc = "settled" /\ @[t] \in {"init", "opened"}
                                       THEN "dropped" ELSE @[t]]]
    /\ UNCHANGED <<caches, activate, skipWaiting, clientMsgs, portReplies, replay,
                   remote, shown, origin, windows, click, health, registered, now,
                   hist>>

----------------------------------------------------------------------------
(* Initial states *)

Entry(url, b) == Put(NoEntries, url, Snapshot(b))

\* What the previous generation of the worker (2.1.0) and other code of the
\* origin may have left in CacheStorage
PreexistingCaches ==
    << [name |-> OLD_CACHE_NAME,
        entries |-> Entry(SameOrigin(<<"/", "index", ".html">>), Deployed),
        docs |-> NoEntries],
       [name |-> OLD_ASSETS_CACHE,
        entries |-> Entry(SameOrigin(<<"/icons/", "icon-192x192", ".png">>), Deployed),
        docs |-> NoEntries],
       [name |-> DATA_CACHE,
        entries |-> NoEntries,
        docs |-> Put(NoEntries, DataUrl("pending-exercise-data"),
                     [status |-> 200, body |-> JsonStringify(JsonArray(<<1, 2>>))])],
       [name |-> FOREIGN_CACHE,
        entries |-> Entry(SameOrigin(<<"/", "vendor", ".js">>), "b2"),
        docs |-> NoEntries],
       [name |-> FOREIGN_LUMINA_INSIDE, entries |-> NoEntries, docs |-> NoEntries] >>

\* What a completed install of this generation leaves in its three tiers
InstalledTiers ==
    CachePutAll(
        CachePutAll(
            CachePutAll(
                <<EmptyCache(STATIC_CACHE), EmptyCache(ASSETS_CACHE),
                  EmptyCache(DYNAMIC_CACHE)>>,
                STATIC_CACHE, CORE_FILES, Snapshot(Deployed)),
            ASSETS_CACHE, EXERCISE_ASSETS, Snapshot(Deployed)),
        DYNAMIC_CACHE, EXTERNAL_RESOURCES, Snapshot(Deployed))

\* the subsequence of s at the positions in keep
RECURSIVE SubSeqAt(_, _, _)
SubSeqAt(s, keep, i) ==
    IF i > Len(s) THEN <<>>
    ELSE IF i \in keep THEN <<s[i]>> \o SubSeqAt(s, keep, i + 1)
    ELSE SubSeqAt(s, keep, i + 1)

SubSeqs(s) == {SubSeqAt(s, keep, 1) : keep \in SUBSET (1..Len(s))}

\* What the pages do in a behaviour: the topics they queue and sync, the
\* requests they issue, and how many sync and fetch events are in flight at once
Scope(topics, requests, replays, fetches) ==
    [topics |-> topics, requests |-> requests, replays |-> replays, fetches |-> fetches,
     faults |-> 0, healths |-> Sequential, origin |-> <<"https://", "lumina", ".app">>, windows |-> <<>>]

\* a behaviour in which up to n operations of CacheStorage reject
WithFaults(scope, n) == [scope EXCEPT !.faults = n]

\* a behaviour in which up to n periodicsync events are in flight at once
WithHealths(scope, n) == [scope EXCEPT !.healths = n]

\* a behaviour of the worker served from origin o, with a window open on each
\* of the pages
WithWindows(scope, o, pages) ==
    [scope EXCEPT !.origin = o,
                  !.windows = [i \in 1..Len(pages) |->
                                  [url |-> o \o pages[i], focused |-> FALSE, msgs |-> <<>>]]]

\* the time of a firing that has not happened
Never == 0 - 1

HistInit(cs, scope) ==
    [installs |-> 0, enqueues |-> 0, syncs |-> 0, stored |-> 0, requests |-> 0,
     clears |-> 0, deleteFailures |-> 0, pushes |-> 0, clicks |-> 0, wakeups |-> 0,
     schedules |-> 0, ticks |-> 0, storageFaults |-> 0, lastFired |-> Never, payload |-> [kind |-> "none", fields |-> NoFields],
     scope |-> scope,
     storedLive |-> StoredUrls(cs) \cap {r.url : r \in scope.requests},
     storedSinceEvict |-> StoredUrls(cs) \cap {r.url : r \in scope.requests}]

\* the worker of this generation, settled after a successful install
InstallDone ==
    [InstallIdle EXCEPT !.pc = "settled", !.waitUntil = "resolved",
                        !.tier = [t \in Tiers |-> "ok"], !.skipWaitingRequested = TRUE]

InitWith(cs, inst, scope) ==
    /\ caches = cs
    /\ install = inst
    /\ activate = ActivateIdle
    /\ clearing = ClearIdle
    /\ skipWaiting = inst.skipWaitingRequested
    /\ clientMsgs = [c \in Clients |-> {}]
    /\ portReplies = {}
    /\ stores = {}
    /\ replay = [r \in Replays |-> ReplayIdle]
    /\ remote = RemoteInit
    /\ fetchers = [f \in Fetchers |-> FetchIdle]
    /\ puts = {}
    /\ shown = <<>>
    /\ origin = scope.origin
    /\ windows = scope.windows
    /\ click = ClickIdle
    /\ health = [h \in Healths |-> HealthIdle]
    /\ registered = {}
    /\ now = 0
    /\ hist = [HistInit(cs, scope) EXCEPT !.installs = IF inst.pc = "idle" THEN 0 ELSE 1]

\* a new worker about to be installed, on an origin with any of the
\* preexisting caches
Init ==
    \E cs \in SubSeqs(PreexistingCaches) :
        InitWith(cs, InstallIdle,
                 WithHealths(WithFaults(Scope(Topics, Requests, MaxReplay, MaxFetch),
                                        MaxDeleteFailures),
                             MaxHealth))

----------------------------------------------------------------------------
(* Next-state relations *)

InstallStep ==
    \/ InstallEvent
    \/ \E t \in Tiers : InstallOpen(t)
    \/ \E t \in Tiers : InstallPopulate(t)
    \/ InstallThen
    \/ InstallCatch

ActivateStep ==
    \/ ActivateEvent
    \/ ActivateKeys
    \/ ActivateDelete
    \/ ActivateClaim
    \/ ActivateBroadcast

ClearStep ==
    \/ ClearCacheMessage
    \/ ClearKeys
    \/ ClearDelete
    \/ ClearReply

StoreStep ==
    \/ StoreDataMessage
    \/ \E s \in stores : StoreOpen(s)
    \/ \E s \in stores : StorePut(s)

\* push and notificationclick events
NotifyStep ==
    \/ \E p \in PushPayloads : PushEvent(p)
    \/ \E i \in 1..(MaxPushes + MaxWakeups), action \in Actions : NotificationClick(i, action)
    \/ ClickMatchAll

\* the reminder-schedule command, the periodic wake-ups and the clock; a
\* wake-up carries the tag of the health check or the tag of another
\* registration
ReminderStep ==
    \/ \E data \in {NoFields, [intervalMinutes |-> 2],
                     [exerciseType |-> "palming", intervalMinutes |-> 1]} :
            ScheduleReminderMessage(data)
    \/ \E s \in stores : ScheduleRegister(s)
    \/ \E s \in stores : ScheduleRegisterRejects(s)
    \/ \E h \in Healths, tag \in {"exercise-health-check", "content-sync"} :
            PeriodicSyncEvent(h, tag)
    \/ \E h \in Healths : HealthOpen(h)
    \/ \E h \in Healths : HealthRead(h)
    \/ \E h \in Healths : HealthShow(h)
    \/ \E h \in Healths : HealthFinish(h)
    \/ Tick

ReplayStep ==
    \/ \E r \in Replays, t \in Topics : SyncEvent(r, t)
    \/ \E r \in Replays : ReplayOpen(r)
    \/ \E r \in Replays : ReplayRead(r)
    \/ \E r \in Replays : ReplaySend(r)
    \/ \E r \in Replays : ReplayClearOpen(r)
    \/ \E r \in Replays : ReplayClearDelete(r)
    \/ \E r \in Replays : ReplayNotify(r)
    \/ \E r \in Replays : ReplayFinish(r)

\* rejections of CacheStorage under the key-value helpers
FaultStep ==
    \/ \E r \in Replays : ReplayReadFaults(r)
    \/ \E s \in stores : StoreFaults(s)
    \/ \E r \in Replays : ReplayClearFaults(r)

FetchStep ==
    \/ \E f \in Fetchers, request \in Requests : FetchEvent(f, request)
    \/ \E f \in Fetchers : FetchMatch(f)
    \/ \E f \in Fetchers : FetchNet(f)
    \/ \E f \in Fetchers : FetchOpen(f)
    \/ \E f \in Fetchers : FetchFallback(f)
    \/ \E f \in Fetchers : FetchFinish(f)
    \/ \E p \in puts : PutOpen(p)
    \/ \E p \in puts : PutComplete(p)

\* Install, then activate, on a fresh origin and on the origin the previous
\* generation ran on
NextInstall ==
    \/ InstallStep
    \/ ActivateStep
    \/ SkipWaitingMessage
    \/ Restart

InitInstall ==
    \E cs \in {<<>>, PreexistingCaches} :
        InitWith(cs, InstallIdle, Scope({}, {}, 0, 0))

SpecInstall == InitInstall /\ [][NextInstall]_vars

\* Activation from every CacheStorage an install can leave behind:
\* any of the preexisting caches and any of this generation's tiers
NextActivate == ActivateStep

InitActivate ==
    \E cs \in SubSeqs(PreexistingCaches \o InstalledTiers) :
        InitWith(cs, InstallDone, Scope({}, {}, 0, 0))

SpecActivate == InitActivate /\ [][NextActivate]_vars

\* The fetch handlers of the installed worker beside activation and cache
\* control.  One request identity per behaviour, issued any number of times:
\* entries of different identities share nothing but the caches they are in.
NextFetch ==
    \/ ActivateStep
    \/ ClearStep
    \/ FetchStep
    \/ Restart

InitFetch ==
    \E request \in {r \in Requests : r.url.host = LocationHost /\ r.method = "GET"} :
        InitWith(SubSeqAt(PreexistingCaches, {2, 4}, 1) \o InstalledTiers, InstallDone,
                 Scope({}, {request}, 0, Sequential))

SpecFetch == InitFetch /\ [][NextFetch]_vars

\* Every kind of request the pages issue, of any method, scheme and origin,
\* beside cache control
NextRoute ==
    \/ ClearStep
    \/ FetchStep
    \/ Restart

InitRoute ==
    \E request \in Requests :
        InitWith(InstalledTiers, InstallDone, Scope({}, {request}, 0, Sequential))

SpecRoute == InitRoute /\ [][NextRoute]_vars

\* The mutation queue: enqueue messages and replays.  One topic per
\* behaviour: the topics share nothing but the data cache.
NextQueue ==
    \/ StoreStep
    \/ ReplayStep
    \/ Restart

InitQueue ==
    \E t \in Topics :
        InitWith(InstalledTiers, InstallDone, Scope({t}, {}, MaxReplay, 0))

SpecQueue == InitQueue /\ [][NextQueue]_vars

\* The queued mutations of the previous session beside activation, cache
\* control and replay
NextDurable ==
    \/ ActivateStep
    \/ ClearStep
    \/ ReplayStep
    \/ Restart

InitDurable ==
    InitWith(SubSeqAt(PreexistingCaches, {3}, 1) \o InstalledTiers, InstallDone,
             Scope({"exercise"}, {}, Sequential, 0))

SpecDurable == InitDurable /\ [][NextDurable]_vars

\* The cache-clear command, with deletes that can reject, beside the requests
\* for a page or for an API resource
NextClear ==
    \/ ClearStep
    \/ ClearDeleteRejects
    \/ FetchStep
    \/ Restart

InitClear ==
    \E request \in {Get(SameOrigin(<<"/", "index", ".html">>), "document"),
                     Get(SameOrigin(<<"/api/", "stats">>), "")} :
        InitWith(SubSeqAt(PreexistingCaches, {2, 4}, 1) \o InstalledTiers, InstallDone,
                 WithFaults(Scope({}, {request}, 0, Sequential), MaxDeleteFailures))

SpecClear == InitClear /\ [][NextClear]_vars

\* Cache-status queries beside activation and cache control
NextStatus ==
    \/ ActivateStep
    \/ ClearStep
    \/ CacheStatusMessage
    \/ Restart

InitStatus ==
    \E cs \in {InstalledTiers, SubSeqAt(PreexistingCaches, {2, 4}, 1) \o InstalledTiers} :
        InitWith(cs, InstallDone, Scope({}, {}, 0, 0))

SpecStatus == InitStatus /\ [][NextStatus]_vars

\* Notifications: push signals and clicks, on either origin the worker is
\* served from, with no window, one window or two windows open
NextNotify == NotifyStep

InitNotify ==
    \E o \in {<<"https://", "lumina", ".app">>, <<"http://", "localhost:8000">>},
       pages \in {<<>>, <<<<"/index.html">>>>,
                  <<<<"/dashboard.html">>, <<"/exercises.html">>>>} :
        InitWith(InstalledTiers, InstallDone, WithWindows(Scope({}, {}, 0, 0), o, pages))

SpecNotify == InitNotify /\ [][NextNotify]_vars

\* Reminders: the schedule command and its write, the periodic check, the
\* clock and teardowns, with and without a config stored by an earlier session
NextReminder ==
    \/ ReminderStep
    \/ \E s \in stores : StoreOpen(s)
    \/ \E s \in stores : StorePut(s)
    \/ Restart

InitReminder ==
    \E cs \in {InstalledTiers,
                DocPut(CachesOpen(InstalledTiers, DATA_CACHE), "exercise-reminder-config",
                       JsonObject(ReminderConfig("20-20-20", 1, 0)))} :
        InitWith(cs, InstallDone, Scope({}, {}, 0, 0))

SpecReminder == InitReminder /\ [][NextReminder]_vars

\* Periodic wake-ups of the health check handled interleaved, over a config
\* stored by an earlier session, and the clock
NextWake ==
    \/ \E h \in Healths : PeriodicSyncEvent(h, "exercise-health-check")
    \/ \E h \in Healths : HealthOpen(h)
    \/ \E h \in Healths : HealthRead(h)
    \/ \E h \in Healths : HealthShow(h)
    \/ \E h \in Healths : HealthFinish(h)
    \/ \E s \in stores : StoreOpen(s)
    \/ \E s \in stores : StorePut(s)
    \/ Tick

InitWake ==
    \E interval \in {1, 20} :
        InitWith(DocPut(CachesOpen(InstalledTiers, DATA_CACHE), "exercise-reminder-config",
                        JsonObject(ReminderConfig("20-20-20", interval, 0))),
                 InstallDone, WithHealths(Scope({}, {}, 0, 0), MaxHealth))

SpecWake == InitWake /\ [][NextWake]_vars

\* Fetch events for one resource the install did not seed, handled
\* interleaved by the cache-first handler
InitRace ==
    \E request \in {r \in Requests : /\ Route(r) = "cacheFirst"
                                     /\ ~CachesMatch(InstalledTiers, r.url).found} :
        InitWith(InstalledTiers, InstallDone, Scope({}, {request}, 0, MaxFetch))

NextRace ==
    \/ \E f \in Fetchers, request \in Requests : FetchEvent(f, request)
    \/ \E f \in Fetchers : FetchMatch(f)
    \/ \E f \in Fetchers : FetchNet(f)
    \/ \E f \in Fetchers : FetchOpen(f)
    \/ \E f \in Fetchers : FetchFinish(f)
    \/ \E p \in puts : PutComplete(p)

SpecRace == InitRace /\ [][NextRace]_vars

\* The mutation queue over a CacheStorage whose operations may reject, with
\* a record queued by an earlier session
NextFault ==
    \/ StoreStep
    \/ ReplayStep
    \/ FaultStep

QueuedBefore(t) == IF t = "settings" THEN JsonObject("s1") ELSE JsonArray(<<1, 2>>)

InitFault ==
    \E t \in Topics :
        InitWith(DocPut(CachesOpen(InstalledTiers, DATA_CACHE), TopicKey(t), QueuedBefore(t)),
                 InstallDone, Scope({t}, {}, Sequential, 0))

SpecFault == InitFault /\ [][NextFault]_vars

Next ==
    \/ InstallStep
    \/ ActivateStep
    \/ ClearStep
    \/ ClearDeleteRejects
    \/ CacheStatusMessage
    \/ SkipWaitingMessage
    \/ StoreStep
    \/ ReplayStep
    \/ FaultStep
    \/ FetchStep
    \/ NotifyStep
    \/ ReminderStep
    \/ Restart

Spec == Init /\ [][Next]_vars

----------------------------------------------------------------------------
(* Properties *)

\* the GET requests for static assets of the origin that handleCacheFirst answers
StaticAssetFetch(f) ==
    /\ fetchers[f].pc # "idle"
    /\ fetchers[f].strategy = "cacheFirst"
    /\ isStaticAsset(fetchers[f].request.url.path)

\* C1 (as stated): a cache-first static-asset request whose identity has been
\* stored in a tier, and not removed by activation cleanup since, is answered
\* without any network attempt.
C1_NoNetworkUntilGenerationChange ==
    \A f \in Fetchers :
        StaticAssetFetch(f) /\ fetchers[f].storedSinceEvict
            => fetchers[f].netAttempts = 0

\* C1: a cache-first static-asset request whose identity is stored in a tier
\* when the handler looks it up (stored once, and removed since neither by
\* activation cleanup nor by the cache-clear command) is answered with the
\* stored response and without any network attempt.
C1_StoredAnsweredWithoutNetwork ==
    \A f \in Fetchers :
        StaticAssetFetch(f) /\ fetchers[f].storedLive
            => /\ fetchers[f].netAttempts = 0
               /\ fetchers[f].pc = "done"
               /\ fetchers[f].responded
               /\ fetchers[f].result = "cache"
               /\ ResponseOf(fetchers[f]).status = 200

\* a repeated request is answered from the entry the first request stored
\* in the runtime tier
C1_RepeatedRequestServedFromTier ==
    \E f \in Fetchers :
        /\ StaticAssetFetch(f)
        /\ hist.requests = 2
        /\ fetchers[f].storedLive
        /\ fetchers[f].result = "cache"
        /\ fetchers[f].netAttempts = 0
        /\ fetchers[f].request.url \in DOMAIN EntriesOf(caches, RUNTIME_CACHE)

\* C2: once the cleanup of activation is complete, of the namespaces that
\* existed when it enumerated them exactly those are gone that carry the
\* application's prefix and are not in the current generation's tier set.
C2_ActivationDeletesExactlyStale ==
    activate.cleanup = "done" =>
        \A n \in Range(activate.listed) :
            CachesHas(caches, n) <=>
                ~(n[1] = "lumina-"
                  /\ n \notin {CACHE_NAME, STATIC_CACHE, DYNAMIC_CACHE,
                               RUNTIME_CACHE, ASSETS_CACHE})

\* activation has cleaned a CacheStorage that held a stale tier, a current
\* tier and a namespace of other code
C2_StaleGoneOthersKept ==
    /\ activate.cleanup = "done"
    /\ {OLD_ASSETS_CACHE, STATIC_CACHE, FOREIGN_LUMINA_INSIDE, FOREIGN_CACHE}
            \subseteq Range(activate.listed)
    /\ ~CachesHas(caches, OLD_ASSETS_CACHE)
    /\ CachesHas(caches, STATIC_CACHE)
    /\ CachesHas(caches, FOREIGN_LUMINA_INSIDE)

\* C3 (as stated): the mutations queued under a topic change only in a step
\* of a replay of that topic that clears the record after every one of its
\* calls was acknowledged.
C3_RemovedOnlyByAcknowledgedReplay ==
    [][\A t \in Topics :
            Queued(caches, t) # <<>> /\ Queued(caches', t) # Queued(caches, t)
                => \E r \in Replays :
                        /\ replay[r].topic = t
                        /\ replay[r].pc = "clearDelete"
                        /\ ~replay[r].failed
                        /\ replay'[r].cleared]_vars

\* C4 (as stated): a replay of several queued mutations one of whose calls
\* failed, by a rejection or by a status other than 2xx, has not cleared the
\* record of its topic.
C4_FailedReplayKeepsRecord ==
    \A r \in Replays :
        Len(replay[r].data) >= 2 /\ replay[r].failed => ~replay[r].cleared

\* C5 (as stated): a replay one of whose calls returned a status other than
\* 2xx stops like one whose call was rejected: it neither goes on to clear
\* the record nor reports success.
C5_Non2xxIsFailure ==
    \A r \in Replays :
        replay[r].non2xx
            => /\ replay[r].pc \in {"done", "idle"}
               /\ ~replay[r].cleared
               /\ ~replay[r].notified

IsPrefix(a, b) == Len(a) <= Len(b) /\ \A i \in 1..Len(a) : a[i] = b[i]

IsSuffix(a, b) ==
    Len(a) <= Len(b) /\ \A i \in 1..Len(a) : a[i] = b[Len(b) - Len(a) + i]

\* C6 (as stated): the step that completes an enqueue leaves the record of
\* the topic holding what was queued before, in order, followed by the
\* mutations of the message.
C6_EnqueueAppends ==
    [][hist'.stored # hist.stored
            => \A s \in stores \ stores' :
                    s.topic # "settings" =>
                    /\ IsPrefix(Queued(caches, s.topic), Queued(caches', s.topic))
                    /\ IsSuffix(s.value.items, Queued(caches', s.topic))]_vars

\* C7 (as stated): when a population of the install has failed and the
\* install's promise chain has settled, the promise given to waitUntil is
\* rejected.
C7_FailedSeedRejectsInstall ==
    install.pc = "settled" /\ (\E t \in Tiers : install.tier[t] = "failed")
        => install.waitUntil = "rejected"

\* C8: an install one of whose populations failed has not called
\* self.skipWaiting().
C8_FailedInstallNeverSkipsWaiting ==
    (install.caught \/ \E t \in Tiers : install.tier[t] = "failed")
        => ~install.skipWaitingRequested

\* the install has settled through its catch handler after a seed failed
C8_InstallCaughtFailure ==
    /\ install.pc = "settled"
    /\ install.caught
    /\ install.tier["assets"] = "failed"
    /\ ~install.skipWaitingRequested

\* every population of the install has finished, one way or the other
PopulationsOver == \A t \in Tiers : install.tier[t] \notin {"init", "opened"}

\* C9 (as stated): after an install one of whose populations failed, no tier
\* of the new generation holds an entry.
C9_NoPartialTierSet ==
    /\ install.pc = "settled"
    /\ PopulationsOver
    /\ \E t \in Tiers : install.tier[t] = "failed"
    => \A t \in Tiers : EntriesOf(caches, TierCache(t)) = NoEntries

\* C10: the install has called self.skipWaiting() only when all three
\* populations have completed and every seed is stored in its tier, and an
\* install that settled with all three populations complete has called it.
C10_SkipWaitingAfterAllPopulations ==
    /\ install.skipWaitingRequested
            => /\ \A t \in Tiers : install.tier[t] = "ok"
               /\ \A t \in Tiers :
                    Range(TierSeeds(t)) \subseteq DOMAIN EntriesOf(caches, TierCache(t))
               /\ skipWaiting
    /\ install.pc = "settled" /\ (\A t \in Tiers : install.tier[t] = "ok")
            => install.skipWaitingRequested

\* the install on an origin with caches of the previous generation has
\* stored every seed and asked for activation
C10_InstalledAndSkippedWaiting ==
    /\ hist.installs = 1
    /\ install.skipWaitingRequested
    /\ CachesHas(caches, OLD_CACHE_NAME)
    /\ \A t \in Tiers :
            Range(TierSeeds(t)) \subseteq DOMAIN EntriesOf(caches, TierCache(t))

\* a same-origin fetch whose handler has settled after fetch(request) was
\* rejected and no cache held the request
FailedUncached(f) ==
    /\ fetchers[f].pc = "done"
    /\ fetchers[f].strategy \in {"cacheFirst", "staleWhileRevalidate", "networkFirst"}
    /\ fetchers[f].netAttempts > 0
    /\ fetchers[f].network = NoResponse
    /\ ~Hit(fetchers[f])

\* C11 (as stated): a same-origin request whose network call failed and that
\* no cache holds is answered with the offline page when it is a document
\* request, and fails when it is not.
C11_OfflinePageForDocuments ==
    \A f \in Fetchers :
        FailedUncached(f)
            => IF fetchers[f].request.destination = "document"
               THEN /\ fetchers[f].result = "offlinePage"
                    /\ ResponseOf(fetchers[f]) = OfflinePage
               ELSE fetchers[f].result = "error"

\* C12: a stale-while-revalidate handler that found a cached entry has
\* answered with it while its network call is still outstanding; a write of
\* that handler is issued only by the step in which its call settles with
\* status 200, and the runtime tier's entry for a request changes only by
\* such a write of a 200 response.
C12_StaleServedBeforeRevalidation ==
    [][/\ \A f \in Fetchers :
            /\ fetchers[f].strategy = "staleWhileRevalidate"
            /\ fetchers[f].pc = "net"
            /\ Hit(fetchers[f])
            => /\ fetchers[f].responded
               /\ fetchers[f].result = "cache"
               /\ ResponseOf(fetchers[f]) = fetchers[f].cached
       /\ \A p \in puts' \ puts :
            p.pc = "open"
                => \E f \in Fetchers :
                        /\ fetchers[f].pc = "net"
                        /\ fetchers'[f].pc = "done"
                        /\ fetchers'[f].request.url = p.url
                        /\ fetchers'[f].network = p.resp
                        /\ p.resp.status = 200
       /\ \A u \in DOMAIN EntriesOf(caches', RUNTIME_CACHE) :
            (u \in DOMAIN EntriesOf(caches, RUNTIME_CACHE)
                => EntriesOf(caches', RUNTIME_CACHE)[u] # EntriesOf(caches, RUNTIME_CACHE)[u])
                => \E p \in puts :
                        /\ p.pc = "put"
                        /\ p.url = u
                        /\ p.resp = EntriesOf(caches', RUNTIME_CACHE)[u]
                        /\ p.resp.status = 200]_vars

\* the page got the stale entry of the static tier, and the runtime tier
\* now holds the newer response of the network
C12_StaleReturnedTierRefreshed ==
    \E f \in Fetchers :
        /\ fetchers[f].strategy = "staleWhileRevalidate"
        /\ fetchers[f].pc = "done"
        /\ fetchers[f].result = "cache"
        /\ fetchers[f].cached = Snapshot(Deployed)
        /\ fetchers[f].network = Snapshot("b2")
        /\ fetchers[f].request.url \in DOMAIN EntriesOf(caches, RUNTIME_CACHE)
        /\ EntriesOf(caches, RUNTIME_CACHE)[fetchers[f].request.url] = Snapshot("b2")

\* the caches the handlers write to
StrategyCaches == {RUNTIME_CACHE, DYNAMIC_CACHE}

\* C13: every entry of the caches the handlers write to, and every
\* cache.put a handler has issued, holds a response with status 200.
C13_OnlyStatus200Persisted ==
    /\ \A n \in StrategyCaches :
        \A u \in DOMAIN EntriesOf(caches, n) : EntriesOf(caches, n)[u].status = 200
    /\ \A p \in puts : p.resp.status = 200

\* a handler stored the 200 response of an earlier request, and has answered
\* the repeated request with an opaque response without any write
C13_OpaqueAnsweredNotStored ==
    \E f \in Fetchers :
        /\ fetchers[f].pc = "done"
        /\ fetchers[f].network = Opaque
        /\ fetchers[f].result = "network"
        /\ puts = {}
        /\ \E n \in StrategyCaches :
            /\ fetchers[f].request.url \in DOMAIN EntriesOf(caches, n)
            /\ EntriesOf(caches, n)[fetchers[f].request.url].status = 200

\* C14 (as stated): a fetch event whose request is not a GET, or whose
\* scheme is neither http nor https, gets no response from the worker and
\* causes no cache read, no cache write and no network call.
C14_UnsupportedRequestsUntouched ==
    \A f \in Fetchers :
        /\ fetchers[f].pc # "idle"
        /\ \/ fetchers[f].request.method # "GET"
           \/ fetchers[f].request.url.protocol \notin {"http:", "https:"}
        => /\ fetchers[f].strategy = "none"
           /\ fetchers[f].result = "notIntercepted"
           /\ ~fetchers[f].responded
           /\ fetchers[f].netAttempts = 0
           /\ fetchers[f].cached = NoResponse
           /\ puts = {}

\* C15 (as stated): an intercepted GET whose path starts with one of the API
\* prefixes, of whatever origin, never starts with a cache read, is answered
\* from a cache only after its network call failed, fails when the call
\* failed and no cache holds it, and is never answered with the 404
\* placeholder or the offline page.
C15_ApiAlwaysNetworkFirst ==
    \A f \in Fetchers :
        /\ fetchers[f].pc # "idle"
        /\ fetchers[f].request.method = "GET"
        /\ fetchers[f].request.url.protocol \in {"http:", "https:"}
        /\ \E i \in 1..Len(NETWORK_FIRST_URLS) :
                PathStartsWith(fetchers[f].request.url.path, NETWORK_FIRST_URLS[i])
        => /\ fetchers[f].pc # "match"
           /\ Hit(fetchers[f])
                => fetchers[f].netAttempts > 0 /\ fetchers[f].network = NoResponse
           /\ fetchers[f].pc = "done" /\ fetchers[f].network = NoResponse
                /\ ~Hit(fetchers[f])
                => fetchers[f].result = "error"
           /\ fetchers[f].result \notin {"placeholder", "offlinePage"}

\* C16: a replay works on the mutations in the order its topic's record
\* held them; it has one call outstanding at a time, the call for the
\* mutation at its position; the step that settles this call is the only
\* one that moves the position, by one, and the only mutation the remote
\* API can have received in that step is the one at the position.
C16_ReplayInOrderOneAtATime ==
    [][\A r \in Replays :
        /\ replay[r].pc = "read" /\ replay'[r].pc = "send"
            => replay'[r].data = Queued(caches, replay[r].topic) /\ replay'[r].i = 1
        /\ replay[r].pc = "send" => replay[r].i \in 1..Len(replay[r].data)
        /\ replay[r].pc = "send" /\ replay'[r] # replay[r]
            => /\ replay'[r].i = replay[r].i + 1
               /\ replay'[r].data = replay[r].data
               /\ \A q \in Replays \ {r} : replay'[q] = replay[q]
               /\ IF replay[r].topic = "settings"
                  THEN \A o \in SettingsObjects :
                        o # replay[r].data[replay[r].i]
                            => remote'.settings[o] = remote.settings[o]
                  ELSE \A p \in Payloads :
                        p # replay[r].data[replay[r].i]
                            => remote'.data[p] = remote.data[p]
        /\ replay[r].pc # "send" => remote' = remote \/ \E q \in Replays : replay[q].pc = "send"]_vars

\* a replay of two queued mutations has delivered the first and has the
\* call for the second outstanding
C16_FirstDeliveredSecondOutstanding ==
    \E r \in Replays :
        /\ replay[r].pc = "send"
        /\ replay[r].data = <<1, 2>>
        /\ replay[r].i = 2
        /\ remote.data[1] = 1
        /\ remote.data[2] = 0

\* C17 (as stated): a replay, of whatever topic, that has finished after
\* every one of its calls was acknowledged has cleared the record of its
\* topic and has posted the synced message to every client.
C17_SuccessfulReplayBroadcasts ==
    \A r \in Replays :
        /\ replay[r].pc = "done"
        /\ Len(replay[r].data) > 0
        /\ replay[r].i > Len(replay[r].data)
        /\ ~replay[r].failed
        => /\ replay[r].cleared
           /\ replay[r].notified
           /\ \A c \in Clients : clientMsgs[c] # {}

\* C18 (as stated): while the worker activates, clients.claim() has been
\* called only when the deletes of the cleanup are complete, and the
\* activated message has been posted only when the claim is complete.
C18_CleanupBeforeClaimBeforeBroadcast ==
    /\ activate.claim # "init" => activate.cleanup = "done"
    /\ activate.pc = "done" => activate.claim = "done" /\ activate.cleanup = "done"

\* C19 (as stated): every tier named in a reply to a cache-status query
\* exists when the reply is posted, and its name carries the generation
\* label the reply reports.
C19_StatusReportsLiveTiers ==
    [][\A m \in portReplies' \ portReplies :
            m.type = "GET_CACHE_STATUS"
                => \A n \in m.caches : CachesHas(caches, n) /\ n[3] = m.version]_vars

C26_ActivatedAfterCleanupAndClaim ==
    /\ \A c \in Clients :
        \A m \in clientMsgs[c] :
            m.type = "SW_ACTIVATED"
                => /\ m.version = APP_VERSION
                   /\ activate.claim = "done"
                   /\ activate.cleanup = "done"
                   /\ \A n \in Range(StaleCacheNames(activate.listed)) :
                        ~CachesHas(caches, n)
    /\ activate.pc = "done" => \A c \in Clients : ActivatedMessage \in clientMsgs[c]

\* the activation is over on an origin that held a tier of the previous
\* generation: the tier is gone and every client has the activated message
C26_ActivatedBroadcastToAll ==
    /\ activate.pc = "done"
    /\ OLD_ASSETS_CACHE \in Range(activate.listed)
    /\ ~CachesHas(caches, OLD_ASSETS_CACHE)
    /\ \A c \in Clients : ActivatedMessage \in clientMsgs[c]

\* C27 (as stated): a replay one of whose calls has failed, by a rejection
\* or by a status other than 2xx, has stopped: it issues no further call
\* and has posted no message to the clients.
C27_FailedCallStopsReplay ==
    \A r \in Replays :
        replay[r].failed => replay[r].pc = "done" /\ ~replay[r].notified

\* C28: the step in which a font or external handler settles after its
\* network call was rejected answers with the entry caches.match finds for
\* the request at that moment, and with the 404 placeholder when it finds
\* none; the handler never settles with the rejection.
C28_FontExternalNeverPropagate ==
    [][\A f \in Fetchers :
            /\ fetchers[f].strategy \in {"font", "external"}
            /\ fetchers[f].pc = "fallback"
            /\ fetchers'[f].pc = "done"
            => /\ fetchers'[f].responded
               /\ fetchers'[f].result \in {"cache", "placeholder"}
               /\ ResponseOf(fetchers'[f]) =
                    IF CachesMatch(caches, fetchers[f].request.url).found
                    THEN CachesMatch(caches, fetchers[f].request.url).resp
                    ELSE Placeholder]_vars

\* an external request was stored by an earlier request; the network call
\* of the repeated request was rejected and the handler answered from the
\* dynamic tier
C28_ExternalAnsweredFromCache ==
    \E f \in Fetchers :
        /\ fetchers[f].pc = "done"
        /\ fetchers[f].strategy = "external"
        /\ fetchers[f].netAttempts = 1
        /\ fetchers[f].network = NoResponse
        /\ fetchers[f].result = "cache"
        /\ fetchers[f].request.url \in DOMAIN EntriesOf(caches, DYNAMIC_CACHE)
        /\ ~(fetchers[f].request.url \in Range(EXTERNAL_RESOURCES))

\* C29 (as stated): whenever the network call of a handler that goes to the
\* network first (handleNetworkFirst, handleExternalRequest) resolves with
\* status 200, the handler goes on to open its tier and store the response
\* before it returns it.
C29_NetworkFirstStoresEvery200 ==
    [][\A f \in Fetchers :
            /\ fetchers[f].strategy \in {"networkFirst", "external"}
            /\ fetchers[f].pc = "net"
            /\ fetchers'[f].pc # "net"
            /\ fetchers'[f].network.status = 200
            => fetchers'[f].pc = "open"]_vars

\* C30: the notification a push event displays has the options of the
\* default notification with the fields of the payload assigned over them:
\* every field of the payload has the payload's value, every other field has
\* its default, and without a payload the options are the default ones.
C30_PushMergesPayloadOverDefault ==
    [][hist'.pushes # hist.pushes /\ hist'.payload.kind # "text"
        => /\ Len(shown') = Len(shown) + 1
           /\ LET p == hist'.payload
                  n == shown'[Len(shown')]
              IN /\ DOMAIN n.options = DOMAIN DefaultOptions \cup DOMAIN p.fields
                 /\ \A k \in DOMAIN p.fields : n.options[k] = p.fields[k]
                 /\ \A k \in DOMAIN DefaultOptions \ DOMAIN p.fields :
                        n.options[k] = DefaultOptions[k]
                 /\ p.kind = "none" => n.options = DefaultOptions]_vars

\* a push whose payload carries a body and a tag is on display with these
\* two and with the icon and the actions of the default
C30_PayloadBodyOverDefault ==
    /\ hist.payload.kind = "json"
    /\ shown # <<>>
    /\ LET n == shown[Len(shown)]
       IN /\ n.options["body"] = "Palming time"
          /\ n.options["tag"] = "palming"
          /\ n.options["icon"] = DefaultOptions.icon
          /\ n.options["actions"] = DefaultOptions.actions

\* the URL names the exercise after quick=
QuickExercise(url, exerciseType) ==
    \E i \in 1..(Len(url) - 1) : url[i] = "quick=" /\ url[i + 1] = exerciseType

\* C21 (as stated): the step that handles a click with action start-exercise
\* while no window is open opens exactly one window, whose URL contains
\* quick=20-20-20, and posts no message to a client.
C21_StartExerciseOpens202020 ==
    [][(click.pc = "matchAll" /\ click'.pc = "idle"
            /\ click.action = "start-exercise" /\ windows = <<>>)
        => /\ Len(windows') = 1
           /\ QuickExercise(windows'[1].url, "20-20-20")
           /\ windows'[1].msgs = <<>>
           /\ clientMsgs' = clientMsgs]_vars

\* C21: the step that handles a click with action start-exercise while no
\* window is open opens exactly one window, whose URL contains quick=
\* followed by the exercise type of the clicked notification's data
\* (20-20-20 when the data names none), and posts no message to a client.
C21_StartExerciseOpensQuickWindow ==
    [][(click.pc = "matchAll" /\ click'.pc = "idle"
            /\ click.action = "start-exercise" /\ windows = <<>>)
        => /\ Len(windows') = 1
           /\ QuickExercise(windows'[1].url,
                            IF "exerciseType" \in DOMAIN click.data
                            THEN click.data["exerciseType"] ELSE "20-20-20")
           /\ windows'[1].msgs = <<>>
           /\ clientMsgs' = clientMsgs]_vars

\* no window was open; the one click so far, with action start-exercise on
\* the default notification, has opened the window of the 20-20-20 exercise
C21_QuickWindowOpened ==
    /\ hist.scope.windows = <<>>
    /\ hist.clicks = 1
    /\ click.pc = "idle"
    /\ Len(windows) = 1
    /\ QuickExercise(windows[1].url, "20-20-20")
    /\ windows[1].focused
    /\ windows[1].msgs = <<>>

\* C22 (as stated): the step that handles a click while a window of the
\* origin is open opens no window, and focuses one of the open windows and
\* appends to its messages one that carries the action of the click.
C22_ClickFocusesOpenWindow ==
    [][(click.pc = "matchAll" /\ click'.pc = "idle" /\ windows # <<>>)
        => /\ Len(windows') = Len(windows)
           /\ \E w \in 1..Len(windows) :
                /\ windows'[w].focused
                /\ Len(windows'[w].msgs) = Len(windows[w].msgs) + 1
                /\ windows'[w].msgs[Len(windows'[w].msgs)].action = click.action]_vars

\* the config the periodic check reads: null when none is stored
StoredReminder == DocRead(caches, "exercise-reminder-config")

\* C23 (as stated): every periodic wake-up starts the check; the check that
\* reads a config whose last firing is at least the interval ago goes on to
\* display one notification and to write the config with the last firing
\* set to the current time; the check that reads no config, or one whose
\* last firing is more recent, displays nothing and writes nothing.
C23_EveryWakeUpChecksReminder ==
    [][/\ hist'.wakeups # hist.wakeups
            => \E h \in Healths : health'[h] # health[h] /\ health'[h].pc = "open"
       /\ \A h \in Healths :
            (health[h].pc = "read" /\ health'[h].pc # "read")
            => IF StoredReminder # Null
                  /\ now - StoredReminder.items[1].lastReminder
                        >= StoredReminder.items[1].intervalMinutes * MsPerMinute
               THEN health'[h].pc = "show"
               ELSE health'[h].pc = "done" /\ shown' = shown /\ stores' = stores
       /\ \A h \in Healths :
            (health[h].pc = "show" /\ health'[h].pc # "show")
            => /\ Len(shown') = Len(shown) + 1
               /\ \E s \in stores' \ stores :
                    /\ s.key = "exercise-reminder-config"
                    /\ s.value.items[1] =
                            [health[h].config.items[1] EXCEPT !.lastReminder = now]
       /\ (\A h \in Healths : health[h].pc \in {"open", "done", "idle"})
            => shown' = shown /\ \A s \in stores' \ stores : s.topic # "health-check"]_vars

\* C23: a periodic wake-up that carries the tag of the health check starts
\* the check, a wake-up with another tag starts nothing; the check that
\* reads a config whose last firing is at least the interval ago goes on to
\* display one notification and to write the config with the last firing
\* set to the current time; the check that reads no config, or one whose
\* last firing is more recent, displays nothing and writes nothing.
C23_HealthCheckWakeUpChecksReminder ==
    [][/\ hist'.wakeups # hist.wakeups
            => \E h \in Healths :
                /\ health[h].pc = "idle"
                /\ \A g \in Healths \ {h} : health'[g] = health[g]
                /\ health'[h].pc = IF health'[h].tag = "exercise-health-check"
                                   THEN "open" ELSE "idle"
       /\ \A h \in Healths :
            (health[h].pc = "read" /\ health'[h].pc # "read")
            => IF StoredReminder # Null
                  /\ now - StoredReminder.items[1].lastReminder
                        >= StoredReminder.items[1].intervalMinutes * MsPerMinute
               THEN health'[h].pc = "show"
               ELSE health'[h].pc = "done" /\ shown' = shown /\ stores' = stores
       /\ \A h \in Healths :
            (health[h].pc = "show" /\ health'[h].pc # "show")
            => /\ Len(shown') = Len(shown) + 1
               /\ \E s \in stores' \ stores :
                    /\ s.key = "exercise-reminder-config"
                    /\ s.value.items[1] =
                            [health[h].config.items[1] EXCEPT !.lastReminder = now]
       /\ (\A h \in Healths : health[h].pc \in {"open", "done", "idle"})
            => shown' = shown /\ \A s \in stores' \ stores : s.topic # "health-check"]_vars

\* a check found the config of a reminder every minute, last fired at 0, a
\* minute or more later: the notification is on display and the stored
\* config carries the time of the check
C23_ReminderFiredAndStamped ==
    /\ \A h \in Healths : health[h].pc = "idle"
    /\ hist.schedules = 0
    /\ Len(shown) = 1
    /\ shown[1].options["tag"] = "periodic-exercise-reminder"
    /\ StoredReminder # Null
    /\ StoredReminder.items[1].lastReminder = now
    /\ now >= MsPerMinute

\* C24 (as stated): a reminder-schedule command that leaves its
\* sync.register has registered the tag of the reminder and goes on to write
\* the config of its kind and interval with the last firing set to the
\* current time; a command that is over has left its config in the store.
C24_ScheduleWritesAndRegisters ==
    [][\A s \in stores :
            /\ s.topic = "reminder" /\ s.pc = "register" /\ s \notin stores'
                => /\ "exercise-reminder" \in registered'
                   /\ \E w \in stores' :
                        /\ w.pc = "open"
                        /\ w.value = JsonObject(ReminderConfig(s.exerciseType,
                                                               s.intervalMinutes, now))
            /\ s.topic = "reminder" /\ s.pc = "put" /\ s \notin stores'
                => StoredReminder' = s.value]_vars

\* C25 (as stated): a storeData call started by a message is in flight until
\* its value is in the store: the step after which it is no longer in flight,
\* a teardown included, leaves the value under its key.
C25_WriteDurableBeforeTeardown ==
    [][\A s \in stores :
            (s.pc \in {"open", "put"}
                /\ \A w \in stores' : w.key # s.key \/ w.value # s.value)
            => DocRead(caches', s.key) = s.value]_vars

\* C31: a replay whose read of the queue faults takes the record as absent:
\* it is over at once, has sent nothing, cleared nothing and told no client,
\* and the step of the fault leaves the remote API, the store and the clients
\* as they were.  A storeData call that faults is dropped, leaving the store
\* and every handler as they were, and a clearStoredData call that faults
\* lets the replay go on as after a delete.
C31_StorageFaultsTolerated ==
    [][/\ \A r \in Replays :
            replay'[r].readFault
                => /\ replay'[r].pc = "done"
                   /\ replay'[r].data = <<>>
                   /\ replay'[r].i = 1
                   /\ ~replay'[r].cleared
                   /\ ~replay'[r].notified
                   /\ replay'[r] # replay[r]
                        => /\ remote' = remote
                           /\ caches' = caches
                           /\ clientMsgs' = clientMsgs
       /\ (hist'.storageFaults # hist.storageFaults /\ stores' # stores)
            => /\ stores' \subseteq stores
               /\ caches' = caches
               /\ replay' = replay
       /\ \A r \in Replays :
            (hist'.storageFaults # hist.storageFaults
                /\ replay[r].pc \in {"clearOpen", "clearDelete"} /\ replay'[r] # replay[r])
            => /\ replay'[r].pc = AfterClear(replay[r].topic)
               /\ replay'[r].failed = replay[r].failed
               /\ caches' = caches]_vars

\* C31 witness: a replay read faulted with the record of its topic in the
\* store, and an enqueue of the session was dropped by a write fault
C31_ReadFaultedWriteDropped ==
    /\ \E r \in Replays :
        /\ replay[r].readFault
        /\ Queued(caches, replay[r].topic) # <<>>
    /\ remote = RemoteInit
    /\ hist.storageFaults = 2
    /\ hist.enqueues > 0
    /\ hist.stored = 0
    /\ stores = {}

\* C32: when a cache.put of a fetch handler completes, the tier holds the
\* response of that put under the request, whatever an earlier put of another
\* handler had left there, and holds no entry more than before when the
\* request already had one: one entry per request, the last write wins.
C32_LastWriteWins ==
    [][\A p \in puts :
            (p.pc = "put" /\ p \notin puts')
            => /\ p.url \in DOMAIN EntriesOf(caches', p.cache)
               /\ EntriesOf(caches', p.cache)[p.url] = p.resp
               /\ DOMAIN EntriesOf(caches', p.cache)
                    = DOMAIN EntriesOf(caches, p.cache) \cup {p.url}
               /\ \A u \in DOMAIN EntriesOf(caches, p.cache) \ {p.url} :
                    EntriesOf(caches', p.cache)[u] = EntriesOf(caches, p.cache)[u]]_vars

\* C32 witness: two handlers of the same request both missed the cache, both
\* got a 200 response from the network, the two responses differ, both puts
\* have completed and the tier holds the response of the first handler
C32_BothMissedBothPopulated ==
    /\ fetchers[1].pc = "done" /\ fetchers[2].pc = "done"
    /\ fetchers[1].request = fetchers[2].request
    /\ fetchers[1].strategy = "cacheFirst"
    /\ ~Hit(fetchers[1]) /\ ~Hit(fetchers[2])
    /\ fetchers[1].network.status = 200 /\ fetchers[2].network.status = 200
    /\ fetchers[1].network # fetchers[2].network
    /\ puts = {}
    /\ EntriesOf(caches, RUNTIME_CACHE)[fetchers[1].request.url] = fetchers[1].network

\* C33: a sync signal starts a replay whatever the other sync events are
\* doing, and a replay that reads the record of its topic takes every
\* mutation in it, those another replay of the topic holds and has sent
\* included, and goes on to send them.
C33_SecondReplayNotExcluded ==
    [][\A r \in Replays :
            (replay[r].pc = "read" /\ replay'[r] # replay[r])
            => /\ replay'[r].data = Queued(caches, replay[r].topic)
               /\ replay'[r].i = 1
               /\ Queued(caches, replay[r].topic) # <<>> => replay'[r].pc = "send"]_vars

\* C33 witness: one enqueue was stored, two sync signals of the topic have
\* both their replays running, and the remote API has received the first
\* mutation of the record twice
C33_SameMutationSentTwice ==
    /\ hist.enqueues = 1 /\ hist.stored = 1 /\ hist.syncs = 2
    /\ replay[1].pc # "idle" /\ replay[2].pc # "idle"
    /\ replay[1].topic = replay[2].topic
    /\ replay[1].data # <<>> /\ replay[1].data = replay[2].data
    /\ replay[1].topic # "settings"
    /\ remote.data[replay[1].data[1]] = 2

\* the remote API has received mutation m of topic t, counted in rem
SentTo(rem, t, m) == IF t = "settings" THEN rem.settings[m] > 0 ELSE rem.data[m] > 0

\* C34 (as stated): no mutation is lost unsent: every mutation the
\* clearStoredData of a replay removes from the record of its topic, written
\* there by an enqueue message before or during the replay, has been sent to
\* the remote API at least once.
C34_NoMutationLostUnsent ==
    [][\A r \in Replays :
            (replay[r].pc = "clearDelete" /\ replay'[r].cleared)
            => \A m \in Range(Queued(caches, replay[r].topic)) :
                    \/ m \in Range(Queued(caches', replay[r].topic))
                    \/ SentTo(remote', replay[r].topic, m)]_vars

\* C35 (as stated): reminders fire at most once per interval: a health check
\* displays a reminder notification only when no reminder was displayed
\* before or at least the interval of the config it read has elapsed since
\* the last one was displayed.
C35_AtMostOncePerInterval ==
    [][\A h \in Healths :
            (health[h].pc = "show" /\ health'[h].pc # "show" /\ hist.lastFired # Never)
            => now - hist.lastFired
                    >= health[h].config.items[1].intervalMinutes * MsPerMinute]_vars

====
